---- MODULE Spec2Model ----
(***************************************************************************)
(* Model of the http-webhook channel plugin (extensions/http-webhook):     *)
(* the HTTP listener of startHttpWebhookMonitor, the body reader, bearer   *)
(* token validation, and the inbound pipeline processInboundMessage with   *)
(* its DM policy, pairing handshake, media resolution and dispatch.        *)
(*                                                                         *)
(* JavaScript strings are tuples of one-character strings, so that split,  *)
(* trim, toLowerCase and the UTF-8 encoding are computed, not assumed.     *)
(* JavaScript values are records tagged by "t".                            *)
(***************************************************************************)
EXTENDS Integers, Sequences, FiniteSets, TLC

VARIABLES
  vbToken,     \* validateBearerToken: the expectedToken argument
  vbHeader,    \* validateBearerToken: the header argument
  vbResult,    \* validateBearerToken: "none" before the call, then its result
  callArgs,    \* a call of one of the other pure functions: its arguments
  callDone,    \* whether that call has returned
  callResult,  \* what it returned
  sends,       \* the calls of sendHttpWebhookMessage, in the order they were made
  replies,     \* per reply: the state of its deliverHttpWebhookReply
  plugin,      \* a call of outbound.sendText or outbound.sendMedia
  tracker,     \* the TokenTracker object and what was done to it
  disk,        \* the snapshot file and the reads and writes in flight
  now,         \* Date.now(), in hours
  cfg,         \* account.config: inbound.path, inbound.token, dm.*
  req,         \* per request: the IncomingMessage (url, method, headers), or NoReq
  phase,       \* per request: position of the listener
  res,         \* per request: the ServerResponse (statuses written, Allow header)
  body,        \* per request: the state of readJsonBody
  pc,          \* per request: position of processInboundMessage
  loc,         \* per request: the locals of processInboundMessage
  events,      \* per request: what happened for it, in order
  allowStore,  \* pairing store: the dynamic allow-list
  pending,     \* pairing store: ids with a pending pairing request
  outbox,      \* per request: the messages handed to sendHttpWebhookMessage, in order
  errorLog,    \* per request: reports of the pipeline catch through runtime.error
  rejections   \* promise rejections no handler caught

vars == <<vbToken, vbHeader, vbResult, callArgs, callDone, callResult, sends, replies,
          plugin, tracker, disk, now, cfg, req, phase, res, body, pc, loc, events, allowStore, pending,
          outbox, errorLog, rejections>>

authVars == <<vbToken, vbHeader, vbResult>>
outVars == <<sends, replies, plugin>>
trackVars == <<tracker, disk, now>>
callVars == <<callArgs, callDone, callResult, outVars, trackVars>>
serverVars == <<cfg, req, phase, res, body, pc, loc, events, allowStore,
                pending, outbox, errorLog, rejections>>

----------------------------------------------------------------------------
(* Bounds *)

MaxTokLen == 2     \* longest token / provided token drawn for validateBearerToken
MaxChunks == 3     \* most data events of one request body
NReq == 2          \* concurrent requests of the pairing specification
MaxDeliver == 1    \* most calls of the deliver callback for one dispatch
MaxMsgs == 3       \* longest messages array drawn for convertMessagesToTextAndMedia
MaxBytes == 2      \* longest byte buffer drawn for extractMediaFromPart
MaxMedia == 2      \* longest mediaUrls list of a reply payload
NReplies == 2      \* deliveries running at once
MaxEvents == 2     \* most events the diagnostic stream emits
MaxLoads == 1      \* most calls of load()
MaxWrites == 2     \* most saves started by the timer and by stop()
MaxSaves == 1      \* most calls of save()
MaxParts == 2      \* most media parts of a drawn inbound user message

----------------------------------------------------------------------------
(* Strings *)

Undef == [t |-> "undef"]
Str(s) == [t |-> "str", s |-> s]

RECURSIVE Concat(_)
Concat(ss) == IF ss = <<>> THEN <<>> ELSE Head(ss) \o Concat(Tail(ss))

\* String.prototype.toLowerCase on the characters the model uses
LowerChar(c) ==
  CASE c = "B" -> "b"
    [] c = "E" -> "e"
    [] c = "A" -> "a"
    [] c = "R" -> "r"
    [] OTHER -> c

toLowerCase(s) == [i \in 1..Len(s) |-> LowerChar(s[i])]

\* White space as String.prototype.trim sees it
IsSpace(c) == c \in {" ", "\n", "\t"}

RECURSIVE trimStart(_)
trimStart(s) ==
  IF s # <<>> /\ IsSpace(Head(s)) THEN trimStart(Tail(s)) ELSE s

RECURSIVE trimEnd(_)
trimEnd(s) ==
  IF s # <<>> /\ IsSpace(s[Len(s)]) THEN trimEnd(SubSeq(s, 1, Len(s) - 1)) ELSE s

trim(s) == trimEnd(trimStart(s))

startsWith(s, p) == Len(s) >= Len(p) /\ SubSeq(s, 1, Len(p)) = p
endsWith(s, p) == Len(s) >= Len(p) /\ SubSeq(s, Len(s) - Len(p) + 1, Len(s)) = p

\* String.prototype.split(" "): the pieces between single spaces, empty ones kept
RECURSIVE split(_)
split(s) ==
  IF \A i \in 1..Len(s) : s[i] # " "
    THEN <<s>>
    ELSE LET k == CHOOSE i \in 1..Len(s) :
                    s[i] = " " /\ \A j \in 1..(i - 1) : s[j] # " "
         IN <<SubSeq(s, 1, k - 1)>> \o split(SubSeq(s, k + 1, Len(s)))

\* Buffer.from(s, "utf8"): one byte per ASCII character, two for U+00E9
Utf8Char(c) ==
  IF c = "U+00E9" THEN <<195, 169>>
  ELSE IF c = "x" THEN <<120>>
  ELSE IF c = "y" THEN <<121>>
  ELSE IF c = "z" THEN <<122>>
  ELSE IF c = " " THEN <<32>>
  ELSE <<63>>

BufferFrom(s) == Concat([i \in 1..Len(s) |-> Utf8Char(s[i])])

\* crypto.timingSafeEqual: throws on buffers of different length
timingSafeEqual(a, b) ==
  [threw |-> Len(a) # Len(b),
   value |-> Len(a) = Len(b) /\ \A i \in 1..Len(a) : a[i] = b[i]]

----------------------------------------------------------------------------
(* validateBearerToken, monitor.ts:138-153 *)

\* A plausible slip: compare only as many bytes as the shorter buffer has
validateBearerTokenPrefix(header, expectedToken) ==
  IF header.t = "undef" \/ header.s = <<>> THEN FALSE
  ELSE LET parts == split(header.s) IN
    IF Len(parts) # 2 \/ toLowerCase(parts[1]) # <<"b","e","a","r","e","r">> THEN FALSE
    ELSE LET expectedBuffer == BufferFrom(expectedToken)
             providedBuffer == BufferFrom(parts[2])
             n == IF Len(expectedBuffer) < Len(providedBuffer)
                    THEN Len(expectedBuffer) ELSE Len(providedBuffer)
         IN \A i \in 1..n : expectedBuffer[i] = providedBuffer[i]

validateBearerToken(header, expectedToken) ==
  IF header.t = "undef" \/ header.s = <<>> THEN FALSE       \* if (!header)
  ELSE LET parts == split(header.s) IN
    IF Len(parts) # 2 \/ toLowerCase(parts[1]) # <<"b","e","a","r","e","r">> THEN FALSE
    ELSE LET expectedBuffer == BufferFrom(expectedToken)
             providedBuffer == BufferFrom(parts[2])
         IN IF Len(expectedBuffer) # Len(providedBuffer) THEN FALSE
            ELSE LET eq == timingSafeEqual(expectedBuffer, providedBuffer)
                 IN IF eq.threw THEN FALSE ELSE eq.value            \* catch

----------------------------------------------------------------------------
(* validateBearerToken applied to drawn arguments *)

TokenChars == {"x", "y", " ", "U+00E9"}

RECURSIVE StringsUpTo(_, _)
StringsUpTo(chars, n) ==
  IF n = 0 THEN {<<>>}
  ELSE LET shorter == StringsUpTo(chars, n - 1)
       IN shorter \cup {<<c>> \o s : c \in chars, s \in {t \in shorter : Len(t) = n - 1}}

TokenStrings == StringsUpTo(TokenChars, MaxTokLen)

Bearer == <<"B","e","a","r","e","r">>
BearerSp == Bearer \o <<" ">>

\* What precedes the provided token in the drawn Authorization values
HeaderPrefixes ==
  {BearerSp, <<"b","e","a","r","e","r"," ">>, <<"B","E","A","R","E","R"," ">>,
   <<"B","a","s","i","c"," ">>, Bearer, <<>>}

HeaderValues ==
  {Undef} \cup {Str(p \o t) : p \in HeaderPrefixes, t \in TokenStrings}

\* No call of a pure function is drawn
NoTracker == tracker = <<>> /\ disk = <<>> /\ now = 0

NoOutbound == sends = <<>> /\ replies = <<>> /\ plugin = [fn |-> "none"] /\ NoTracker

NoCall == callArgs = <<>> /\ callDone = FALSE /\ callResult = <<>> /\ NoOutbound

InitAuth ==
  /\ vbToken \in TokenStrings
  /\ vbHeader \in HeaderValues
  /\ vbResult = "none"

CallValidate ==
  /\ vbResult = "none"
  /\ vbResult' = IF validateBearerToken(vbHeader, vbToken) THEN "true" ELSE "false"
  /\ UNCHANGED <<vbToken, vbHeader, callVars, serverVars>>

----------------------------------------------------------------------------
(* JavaScript values of a parsed JSON body *)

Null == [t |-> "null"]
Num(n) == [t |-> "num", n |-> n]
Arr(a) == [t |-> "arr", a |-> a]

\* Truthiness of a value: !v is ~Truthy(v)
Truthy(v) ==
  CASE v.t = "undef" -> FALSE
    [] v.t = "null" -> FALSE
    [] v.t = "str" -> v.s # <<>>
    [] v.t = "num" -> v.n # 0
    [] OTHER -> TRUE

\* typeof v === "object"
TypeofObject(v) == v.t \in {"obj", "null", "arr"}

\* v.name for the fields the listener and the pipeline read
Field(v, name) == IF v.t = "obj" THEN v.fields[name] ELSE Undef

Obj(from, text, messages, mediaUrl) ==
  [t |-> "obj",
   fields |-> [from |-> from, text |-> text, messages |-> messages,
               mediaUrl |-> mediaUrl, fromName |-> Undef]]

ObjectObject == <<"[","o","b","j","e","c","t"," ","O","b","j","e","c","t","]">>

\* `${v}`: a string as it is, an array of objects as its elements' strings
\* joined by commas, undefined and null by their names
RECURSIVE TemplateString(_)
TemplateString(v) ==
  CASE v.t = "str" -> v.s
    [] v.t = "arr" -> IF v.a = <<>> THEN <<>>
                      ELSE IF Len(v.a) = 1 THEN ObjectObject
                      ELSE ObjectObject \o <<",">> \o TemplateString([v EXCEPT !.a = Tail(@)])
    [] v.t = "null" -> <<"n","u","l","l">>
    [] OTHER -> <<"u","n","d","e","f","i","n","e","d">>

RECURSIVE join(_, _)
join(parts, sep) ==
  IF parts = <<>> THEN <<>>
  ELSE IF Len(parts) = 1 THEN parts[1]
  ELSE parts[1] \o sep \o join(Tail(parts), sep)

----------------------------------------------------------------------------
(* extractMediaFromPart, monitor.ts:219-250 *)

HttpPrefix == <<"h","t","t","p",":","/","/">>
HttpsPrefix == <<"h","t","t","p","s",":","/","/">>
DataPrefix == <<"d","a","t","a",":">>
Base64Mark == <<";","b","a","s","e","6","4">>

\* Longest prefix of s holding neither ";" nor ",": the regexp's ([^;,]+)
RECURSIVE TypeRun(_)
TypeRun(s) ==
  IF s = <<>> \/ Head(s) \in {",", ";"} THEN <<>>
  ELSE <<Head(s)>> \o TypeRun(Tail(s))

Drop(s, n) == SubSeq(s, n + 1, Len(s))

\* The regexp's ,(.*)$ on what follows the optional ;base64
MatchComma(type, tail) ==
  [matched |-> /\ tail # <<>>
               /\ Head(tail) = ","
               /\ \A i \in 2..Len(tail) : tail[i] # "\n",
   type |-> type,
   payload |-> IF tail = <<>> THEN <<>> ELSE Tail(tail)]

\* The regexp's (?:;base64)? on what follows the media type
MatchBase64(type, after) ==
  MatchComma(type, IF startsWith(after, Base64Mark)
                     THEN Drop(after, Len(Base64Mark)) ELSE after)

MatchType(type, rest) == MatchBase64(type, Drop(rest, Len(type)))

\* data.match(/^data:([^;,]+)?(?:;base64)?,(.*)$/) on a string starting "data:"
DataUrlMatch(s) == MatchType(TypeRun(Drop(s, Len(DataPrefix))), Drop(s, Len(DataPrefix)))

NoMedia == [kind |-> "none"]

\* The base64 alphabet of Buffer.prototype.toString("base64")
Base64Alphabet ==
  <<"A","B","C","D","E","F","G","H","I","J","K","L","M",
    "N","O","P","Q","R","S","T","U","V","W","X","Y","Z",
    "a","b","c","d","e","f","g","h","i","j","k","l","m",
    "n","o","p","q","r","s","t","u","v","w","x","y","z",
    "0","1","2","3","4","5","6","7","8","9","+","/">>

Sextet(n, k) == Base64Alphabet[((n \div (64 ^ k)) % 64) + 1]

\* Buffer.from(bytes).toString("base64"): three bytes to four characters,
\* a last group of one or two bytes padded with "="
RECURSIVE toStringBase64(_)
toStringBase64(bytes) ==
  IF bytes = <<>> THEN <<>>
  ELSE IF Len(bytes) = 1
    THEN <<Sextet(bytes[1] * 65536, 3), Sextet(bytes[1] * 65536, 2), "=", "=">>
  ELSE IF Len(bytes) = 2
    THEN <<Sextet(bytes[1] * 65536 + bytes[2] * 256, 3),
           Sextet(bytes[1] * 65536 + bytes[2] * 256, 2),
           Sextet(bytes[1] * 65536 + bytes[2] * 256, 1), "=">>
  ELSE <<Sextet(bytes[1] * 65536 + bytes[2] * 256 + bytes[3], 3),
         Sextet(bytes[1] * 65536 + bytes[2] * 256 + bytes[3], 2),
         Sextet(bytes[1] * 65536 + bytes[2] * 256 + bytes[3], 1),
         Sextet(bytes[1] * 65536 + bytes[2] * 256 + bytes[3], 0)>>
       \o toStringBase64(Drop(bytes, 3))

\* monitor.ts:233-241: the match decides between a data URL and raw base64
FromDataString(m, data, mediaType) ==
  IF m.matched
    THEN [kind |-> "data", data |-> m.payload,
          mediaType |-> IF m.type # <<>> THEN Str(m.type) ELSE mediaType]
    ELSE [kind |-> "data", data |-> data, mediaType |-> mediaType]

extractMediaFromPart(data, mediaType) ==
  IF data.t = "url" THEN [kind |-> "url", mediaType |-> mediaType, url |-> data.href]
  ELSE IF data.t = "str" THEN
    IF startsWith(data.s, HttpPrefix) \/ startsWith(data.s, HttpsPrefix)
      THEN [kind |-> "url", mediaType |-> mediaType, url |-> data.s]
    ELSE IF startsWith(data.s, DataPrefix)
      THEN FromDataString(DataUrlMatch(data.s), data.s, mediaType)
    ELSE [kind |-> "data", data |-> data.s, mediaType |-> mediaType]
  ELSE IF data.t \in {"Uint8Array", "ArrayBuffer"}
    THEN [kind |-> "data", data |-> toStringBase64(data.bytes), mediaType |-> mediaType]
  ELSE NoMedia

----------------------------------------------------------------------------
(* convertMessagesToTextAndMedia, monitor.ts:176-213 *)

SystemOpen == <<"[","S","y","s","t","e","m",":"," ">>
AssistantOpen == <<"[","A","s","s","i","s","t","a","n","t",":"," ">>
Close == <<"]">>
Newline == <<"\n">>

\* if (extracted) media.push(extracted)
PushMedia(acc, extracted) ==
  IF extracted # NoMedia THEN [acc EXCEPT !.media = Append(@, extracted)] ELSE acc

\* One part of a user message (monitor.ts:189-199)
WalkPart(part, acc) ==
  IF part.type = "text" THEN [acc EXCEPT !.textParts = Append(@, part.text)]
  ELSE IF part.type \in {"image", "file"}
    THEN PushMedia(acc, extractMediaFromPart(
                          IF part.type = "image" THEN part.image ELSE part.data,
                          part.mediaType))
  ELSE acc

\* The inner loop over a user message's parts (monitor.ts:188-200)
RECURSIVE WalkParts(_, _)
WalkParts(parts, acc) ==
  IF parts = <<>> THEN acc
  ELSE WalkParts(Tail(parts), WalkPart(Head(parts), acc))

\* A slip: the system entry is pushed like the others
unshiftAsPush(array, item) == Append(array, item)

\* Array.prototype.unshift
unshift(array, item) == <<item>> \o array

\* One message of the loop (monitor.ts:181-206)
WalkMessage(message, acc) ==
  IF message.role = "system"
    THEN [acc EXCEPT !.textParts =
            unshift(@, SystemOpen \o TemplateString(message.content) \o Close)]
  ELSE IF message.role = "user"
    THEN IF message.content.t = "str"
           THEN [acc EXCEPT !.textParts = Append(@, message.content.s)]
         ELSE IF message.content.t = "arr"
           THEN WalkParts(message.content.a, acc)
           ELSE acc
  ELSE IF message.role = "assistant"
    THEN [acc EXCEPT !.textParts =
            Append(@, AssistantOpen \o TemplateString(message.content) \o Close)]
  ELSE acc

\* The loop over the messages (monitor.ts:180-207)
RECURSIVE WalkMessages(_, _)
WalkMessages(messages, acc) ==
  IF messages = <<>> THEN acc
  ELSE WalkMessages(Tail(messages), WalkMessage(Head(messages), acc))

\* textParts.join("\n").trim() and the media, monitor.ts:209-212
Converted(acc) == [text |-> trim(join(acc.textParts, Newline)), media |-> acc.media]

convertMessagesToTextAndMedia(messages) ==
  Converted(WalkMessages(messages, [media |-> <<>>, textParts |-> <<>>]))

----------------------------------------------------------------------------
(* processInboundMessage, normalization: monitor.ts:263-281 *)

\* message.from.trim(), monitor.ts:263; empty when the call throws
TrimmedFrom(fromV) == IF fromV.t = "str" THEN trim(fromV.s) ELSE <<>>

\* monitor.ts:270-276: the messages array when present and truthy, else the text
Canonical(messagesV, textV) ==
  IF Truthy(messagesV)                        \* "messages" in message && message.messages
    THEN IF messagesV.t = "arr" THEN convertMessagesToTextAndMedia(messagesV.a)
         ELSE [text |-> <<>>, media |-> <<>>]
    ELSE [text |-> IF textV.t = "str" THEN trim(textV.s) ELSE <<>>, media |-> <<>>]

\* Whether monitor.ts:263-276 throw a TypeError: trim of a non-string, or a
\* for ... of over a value that is not iterable
NormalizeThrows(fromV, messagesV, textV) ==
  \/ fromV.t # "str"
  \/ Truthy(messagesV) /\ messagesV.t \notin {"str", "arr"}
  \/ ~Truthy(messagesV) /\ textV.t \notin {"undef", "str", "null"}

\* A slip: the check for a missing sender or text is left out
OutcomeUnchecked(threw, from, content) ==
  [from |-> from, text |-> content.text, fromName |-> from, media |-> content.media,
   outcome |-> IF threw THEN "throw" ELSE "go"]

\* if (!from || !text) return, monitor.ts:278-281
Outcome(threw, from, content) ==
  [from |-> from, text |-> content.text, fromName |-> from, media |-> content.media,
   outcome |-> IF threw THEN "throw"
               ELSE IF from = <<>> \/ content.text = <<>> THEN "skip"
               ELSE "go"]

\* The outcome of the lines up to the "missing from or text" check:
\* "throw" (a TypeError rejects the promise), "skip" (return) or "go".
Normalize(message) ==
  Outcome(NormalizeThrows(Field(message, "from"), Field(message, "messages"),
                          Field(message, "text")),
          TrimmedFrom(Field(message, "from")),
          Canonical(Field(message, "messages"), Field(message, "text")))

----------------------------------------------------------------------------
(* The listener's configuration and state *)

Reqs == 1..NReq
NoReq == [t |-> "none"]

MaxBodyBytes == 1048576        \* readJsonBody(req, 1024 * 1024), monitor.ts:748

healthPath == <<"/","h","e","a","l","t","h">>

\* normalizeWebhookPath, monitor.ts:87-95
normalizeWebhookPath(raw) ==
  LET trimmed == trim(raw) IN
  IF trimmed = <<>> THEN <<"/">>
  ELSE LET withSlash == IF startsWith(trimmed, <<"/">>) THEN trimmed
                        ELSE <<"/">> \o trimmed
       IN IF Len(withSlash) > 1 /\ endsWith(withSlash, <<"/">>)
            THEN SubSeq(withSlash, 1, Len(withSlash) - 1)
            ELSE withSlash

\* const path = normalizeWebhookPath(inbound.path ?? "/"), monitor.ts:695
path == normalizeWebhookPath(IF cfg.path.t = "undef" THEN <<"/">> ELSE cfg.path.s)
token == cfg.token                                     \* monitor.ts:696

NewResponse == [statuses |-> <<>>, allow |-> FALSE]

\* res.writeHead(code) followed by res.end(...), or res.statusCode = code; res.end(...)
Respond(r, code) == [res EXCEPT ![r].statuses = Append(@, code)]

NewBody == [raw |-> [kind |-> "unread"], listening |-> FALSE, total |-> 0, kept |-> 0,
            chunks |-> 0, resolved |-> FALSE, resolves |-> 0,
            destroyed |-> FALSE,
            result |-> [value |-> Undef, ok |-> FALSE, error |-> "none"]]

NewLocals == [from |-> <<>>, text |-> <<>>, fromName |-> <<>>, media |-> <<>>,
              code |-> 0, resolved |-> <<>>,
              shouldComputeAuth |-> FALSE, storeAllowFrom |-> {}, senderAllowed |-> FALSE,
              created |-> FALSE, mediaDone |-> 0, mediaPaths |-> <<>>,
              mediaTypes |-> <<>>,
              primary |-> [path |-> Undef, contentType |-> Undef], delivered |-> 0,
              dispatched |-> <<>>]

InitServer(configs, stores) ==
  /\ cfg \in configs
  /\ allowStore \in stores
  /\ pending = {}
  /\ req = [r \in Reqs |-> NoReq]
  /\ phase = [r \in Reqs |-> "idle"]
  /\ res = [r \in Reqs |-> NewResponse]
  /\ body = [r \in Reqs |-> NewBody]
  /\ pc = [r \in Reqs |-> "none"]
  /\ loc = [r \in Reqs |-> NewLocals]
  /\ events = [r \in Reqs |-> <<>>]
  /\ outbox = [r \in Reqs |-> <<>>]
  /\ errorLog = [r \in Reqs |-> 0]
  /\ rejections = {}

----------------------------------------------------------------------------
(* The request handler up to the body read, monitor.ts:717-748 *)

\* A slip in the order: the token is examined before the method
RouteStatusAuthFirst(q) ==
  IF q.url = healthPath THEN 200
  ELSE IF q.url # path THEN 404
  ELSE LET authHeader == IF q.ezail.t # "undef" THEN q.ezail ELSE q.authorization
       IN IF ~validateBearerToken(authHeader, token) THEN 401
          ELSE IF q.method # "POST" THEN 405 ELSE 0

\* The status the synchronous part answers with, 0 when it goes on to the body
RouteStatus(q) ==
  IF q.url = healthPath THEN 200
  ELSE IF q.url # path THEN 404
  ELSE IF q.method # "POST" THEN 405
  ELSE LET authHeader == IF q.ezail.t # "undef" THEN q.ezail ELSE q.authorization
       IN IF ~validateBearerToken(authHeader, token) THEN 401 ELSE 0

HandleRequest(r, requests) ==
  /\ phase[r] = "idle"
  /\ \A p \in Reqs : p < r => phase[p] # "idle"
  /\ \E q \in requests :
       LET code == RouteStatus(q) IN
       /\ req' = [req EXCEPT ![r] = q]
       /\ IF code # 0
            THEN /\ res' = [Respond(r, code) EXCEPT ![r].allow = (code = 405)]
                 /\ phase' = [phase EXCEPT ![r] = "closed"]
                 /\ body' = body
            ELSE /\ res' = res
                 /\ phase' = [phase EXCEPT ![r] = "reading"]
                 /\ body' = [body EXCEPT ![r].listening = TRUE]   \* req.on(...)
  /\ UNCHANGED <<authVars, callVars, cfg, pc, loc, events, allowStore, pending, outbox, errorLog,
                 rejections>>

----------------------------------------------------------------------------
(* readJsonBody, monitor.ts:97-136 *)

\* doResolve, monitor.ts:105-110
doResolve(b, value) ==
  IF b.resolved THEN b
  ELSE [b EXCEPT !.resolved = TRUE, !.resolves = @ + 1,
                 !.listening = FALSE,                  \* req.removeAllListeners()
                 !.result = value]

Failed(error) == [value |-> Undef, ok |-> FALSE, error |-> error]

\* The fewest bytes a body of each kind takes
MinBytes(raw) ==
  CASE raw.kind = "empty" -> 0
    [] raw.kind = "blank" -> 1
    [] raw.kind = "garbage" -> 1
    [] raw.kind = "json" /\ raw.value.t = "num" -> 1
    [] raw.kind = "json" /\ raw.value.t = "obj" -> 11
    [] OTHER -> 2

\* Whether a body of n bytes can hold the text raw
RawFits(raw, n) == (raw.kind = "empty") = (n = 0) /\ n >= MinBytes(raw)

\* The "end" handler's outcome for the text raw, monitor.ts:121-130
ParseBody(raw) ==
  IF raw.kind \in {"empty", "blank"} THEN Failed("empty payload")    \* !raw.trim()
  ELSE IF raw.kind = "garbage" THEN Failed("SyntaxError")           \* JSON.parse throws
  ELSE [value |-> raw.value, ok |-> TRUE, error |-> "none"]

\* A slip in the cap: a body of exactly maxBytes is refused
OverCapInclusive(total, maxBytes) == total >= maxBytes

\* if (total > maxBytes), monitor.ts:113
OverCap(total, maxBytes) == total > maxBytes

\* req.on("data", ...), monitor.ts:111-119
OnData(r, sizes) ==
  /\ phase[r] = "reading"
  /\ body[r].listening
  /\ body[r].chunks < MaxChunks
  /\ \E n \in sizes :
       LET b == [body[r] EXCEPT !.total = @ + n, !.chunks = @ + 1] IN
       IF OverCap(b.total, MaxBodyBytes)
         THEN /\ body' = [body EXCEPT ![r] =
                    [doResolve(b, Failed("payload too large")) EXCEPT !.destroyed = TRUE]]
              /\ phase' = [phase EXCEPT ![r] = "resolved"]
         ELSE /\ body' = [body EXCEPT ![r] = [b EXCEPT !.kept = @ + n]]
              /\ phase' = phase
  /\ UNCHANGED <<authVars, callVars, cfg, req, res, pc, loc, events, allowStore, pending, outbox,
                 errorLog, rejections>>

\* req.on("end", ...), monitor.ts:120-131
OnEnd(r, texts) ==
  /\ phase[r] = "reading"
  /\ body[r].listening
  /\ \E raw \in texts :
       /\ RawFits(raw, body[r].kept)
       /\ body' = [body EXCEPT ![r] = doResolve([@ EXCEPT !.raw = raw], ParseBody(raw))]
  /\ phase' = [phase EXCEPT ![r] = "resolved"]
  /\ UNCHANGED <<authVars, callVars, cfg, req, res, pc, loc, events, allowStore, pending, outbox,
                 errorLog, rejections>>

\* req.on("error", ...), monitor.ts:132-134
OnError(r) ==
  /\ phase[r] = "reading"
  /\ body[r].listening
  /\ body' = [body EXCEPT ![r] = doResolve(@, Failed("aborted"))]
  /\ phase' = [phase EXCEPT ![r] = "resolved"]
  /\ UNCHANGED <<authVars, callVars, cfg, req, res, pc, loc, events, allowStore, pending, outbox,
                 errorLog, rejections>>

----------------------------------------------------------------------------
(* The readJsonBody continuation, monitor.ts:748-792 *)

\* A slip: the check for text or messages is left out
BodyStatusNoContentCheck(result) ==
  IF ~result.ok
    THEN IF result.error = "payload too large" THEN 413 ELSE 400
  ELSE IF ~Truthy(result.value) \/ ~TypeofObject(result.value)
          \/ ~Truthy(Field(result.value, "from")) THEN 400
  ELSE 200

\* The status the continuation answers with (monitor.ts:749-778)
BodyStatus(result) ==
  IF ~result.ok
    THEN IF result.error = "payload too large" THEN 413 ELSE 400
  ELSE LET rawMessage == result.value
           textV == Field(rawMessage, "text")
           messagesV == Field(rawMessage, "messages")
           hasText == textV.t = "str" /\ Len(trim(textV.s)) > 0
           hasMessages == messagesV.t = "arr" /\ Len(messagesV.a) > 0
       IN IF ~Truthy(rawMessage) \/ ~TypeofObject(rawMessage)
             \/ ~Truthy(Field(rawMessage, "from")) THEN 400
          ELSE IF ~hasText /\ ~hasMessages THEN 400
          ELSE 200

\* A slip in the order: the pipeline is started before the response is written
AckEventsSwapped == <<"start", "ack">>

\* res.writeHead(200); res.end("OK"); processInboundMessage(...), monitor.ts:777-781
AckEvents == <<"ack", "start">>

BodyThen(r) ==
  /\ phase[r] = "resolved"
  /\ phase' = [phase EXCEPT ![r] = "closed"]
  /\ LET code == BodyStatus(body[r].result)
         n == Normalize(body[r].result.value)
     IN /\ res' = Respond(r, code)
        /\ IF code = 200
             THEN /\ events' = [events EXCEPT ![r] = @ \o AckEvents
                       \o (IF n.outcome = "skip" THEN <<"skip">> ELSE <<>>)]
                  /\ loc' = [loc EXCEPT ![r].from = n.from, ![r].fromName = n.fromName,
                                         ![r].text = n.text, ![r].media = n.media]
                  /\ pc' = [pc EXCEPT ![r] =
                              CASE n.outcome = "throw" -> "rejected"
                                [] n.outcome = "skip" -> "done"
                                [] OTHER -> "policy"]
             ELSE UNCHANGED <<events, loc, pc>>
  /\ UNCHANGED <<authVars, callVars, cfg, req, body, allowStore, pending, outbox, errorLog, rejections>>

----------------------------------------------------------------------------
(* processInboundMessage, DM policy: monitor.ts:283-344 *)

Star == <<"*">>

dmPolicy == IF cfg.dmPolicy = "undef" THEN "pairing" ELSE cfg.dmPolicy   \* ?? "pairing"
allowFrom == cfg.allowFrom                                               \* ?? []

\* logVerbose(core, runtime, message) evaluates core.logging.shouldLogVerbose():
\* it throws a TypeError when handed the runtime env ({log?, error?}) as core
logVerboseThrows(core) == core = "runtime"

\* dmPolicy !== "open" || shouldComputeAuth, monitor.ts:288
ReadsStore(shouldComputeAuth) == dmPolicy # "open" \/ shouldComputeAuth

\* A slip: the wildcard is not honoured
senderAllowedNoWildcard(effectiveAllowFrom, from) == from \in effectiveAllowFrom

\* effectiveAllowFrom.includes("*") || effectiveAllowFrom.includes(from), monitor.ts:292
senderAllowedIn(effectiveAllowFrom, from) ==
  Star \in effectiveAllowFrom \/ from \in effectiveAllowFrom

\* The branch taken by monitor.ts:300-344 once the allow-lists are known
PolicyDecision(senderAllowed) ==
  IF dmPolicy = "disabled" \/ cfg.dmEnabled = "false" THEN "disabled"
  ELSE IF dmPolicy # "open" /\ ~senderAllowed
    THEN IF dmPolicy = "pairing" THEN "pair" ELSE "block"
  ELSE "process"

Log(r, es) == [events EXCEPT ![r] = @ \o es]

CheckPolicy(r) ==
  /\ pc[r] = "policy"
  /\ \E shouldComputeAuth \in BOOLEAN, readOk \in BOOLEAN :
       LET reads == ReadsStore(shouldComputeAuth)
           storeAllowFrom == IF reads /\ readOk THEN allowStore ELSE {}   \* .catch(() => [])
           effectiveAllowFrom == allowFrom \cup storeAllowFrom
           senderAllowed == senderAllowedIn(effectiveAllowFrom, loc[r].from)
           decision == PolicyDecision(senderAllowed)
       IN /\ (~reads => readOk)
          /\ loc' = [loc EXCEPT ![r].shouldComputeAuth = shouldComputeAuth,
                                 ![r].storeAllowFrom = storeAllowFrom,
                                 ![r].senderAllowed = senderAllowed]
          /\ events' = Log(r, (IF reads THEN <<"storeRead">> ELSE <<>>)
                               \o (CASE decision = "disabled" -> <<"disabled">>
                                      [] decision = "block" -> <<"blocked">>
                                      [] OTHER -> <<>>))
          /\ pc' = [pc EXCEPT ![r] =
                      CASE decision = "disabled" ->
                             IF logVerboseThrows("runtime") THEN "rejected" ELSE "done"
                        [] decision = "pair" -> "upsert"
                        [] decision = "block" -> "done"
                        [] OTHER -> "media"]
  /\ UNCHANGED <<authVars, callVars, cfg, req, phase, res, body, allowStore, pending, outbox, errorLog,
                 rejections>>

\* core.channel.pairing.upsertPairingRequest: create-or-fetch the pending request
upsertPairingRequest(id) ==
  [pending |-> pending \cup {id}, created |-> id \notin pending]

\* A slip: the pairing reply is sent whether or not the request is new
RepliesAlways(created) == TRUE

\* if (created), monitor.ts:313
RepliesWhen(created) == created

\* The pairing branch up to the reply, monitor.ts:307-314
PairingBranch(r) ==
  /\ pc[r] = "upsert"
  /\ \E ok \in BOOLEAN :
       IF ok
         THEN LET u == upsertPairingRequest(loc[r].from) IN
              /\ pending' = u.pending
              /\ loc' = [loc EXCEPT ![r].created = u.created]
              /\ events' = Log(r, <<IF u.created THEN "created" ELSE "fetched">>)
              /\ pc' = [pc EXCEPT ![r] =
                          IF RepliesWhen(u.created) THEN "pairingReply" ELSE "done"]
         ELSE /\ pc' = [pc EXCEPT ![r] = "rejected"]        \* the store call rejects
              /\ events' = Log(r, <<"upsertFailed">>)
              /\ UNCHANGED <<pending, loc>>
  /\ UNCHANGED <<authVars, callVars, cfg, req, phase, res, body, allowStore, outbox, errorLog, rejections>>

\* The pairing reply, monitor.ts:316-333
SendPairingReply(r) ==
  /\ pc[r] = "pairingReply"
  /\ \E outcome \in {"ok", "failed", "throw"} :
       IF outcome = "throw"                \* caught and logged, monitor.ts:331-333
         THEN /\ events' = Log(r, <<"pairingReplyThrew">>)
              /\ UNCHANGED outbox
         ELSE /\ outbox' = [outbox EXCEPT ![r] =
                    Append(@, [kind |-> "pairing", ok |-> outcome = "ok",
                               to |-> loc[r].from])]
              /\ events' = Log(r, <<"pairingReply">>)
  /\ pc' = [pc EXCEPT ![r] = "done"]
  /\ UNCHANGED <<authVars, callVars, cfg, req, phase, res, body, loc, allowStore, pending, errorLog,
                 rejections>>

----------------------------------------------------------------------------
(* processInboundMessage, media and dispatch: monitor.ts:346-503 *)

\* The items resolved in order: message.mediaUrl, then the extracted media
MediaItems(r) ==
  LET mediaUrl == Field(body[r].result.value, "mediaUrl")
  IN (IF Truthy(mediaUrl) THEN <<[kind |-> "url", mediaType |-> Undef, url |-> mediaUrl]>>
      ELSE <<>>) \o loc[r].media

\* Whether item i of the media items is the message's own mediaUrl
IsTopLevel(r, i) == i = 1 /\ Truthy(Field(body[r].result.value, "mediaUrl"))

OctetStream ==
  Str(<<"a","p","p","l","i","c","a","t","i","o","n","/",
        "o","c","t","e","t","-","s","t","r","e","a","m">>)

\* What saveMediaBuffer returns for item i: a path of its own, and the content
\* type it was handed: the fetched one for a URL (monitor.ts:368-374, 385-390),
\* extracted.mediaType ?? "application/octet-stream" for data (monitor.ts:399-405)
Saved(item, i) ==
  [path |-> [t |-> "path", of |-> i],
   contentType |-> IF item.kind = "url" THEN [t |-> "fetched", of |-> i]
                   ELSE IF item.mediaType = Undef \/ item.mediaType = Null THEN OctetStream
                   ELSE item.mediaType]

\* A slip: the primary reference follows the latest saved item
PrimaryLatest(current, saved, top) == saved

\* mediaPath and mediaType: assigned for the mediaUrl (monitor.ts:375-376),
\* and under if (!mediaPath) for an extracted item (monitor.ts:391-394, 408-411)
Primary(current, saved, top) ==
  IF top \/ current.path = Undef THEN saved ELSE current

\* One item of monitor.ts:365-423: fetch or decode, then save; a failure is
\* reported through runtime.error and skips the item only
ResolveMedia(r) ==
  /\ pc[r] = "media"
  /\ loc[r].mediaDone < Len(MediaItems(r))
  /\ \E ok \in BOOLEAN :
       LET i == loc[r].mediaDone + 1
           item == MediaItems(r)[i]
           acts == item.kind = "url" \/ item.data # <<>>      \* extracted.url / .data
           saved == Saved(item, i)
       IN /\ loc' = [loc EXCEPT ![r].mediaDone = i,
                                 ![r].mediaPaths =
                                   IF acts /\ ok THEN Append(@, saved.path) ELSE @,
                                 ![r].mediaTypes =
                                   IF acts /\ ok THEN Append(@, saved.contentType) ELSE @,
                                 ![r].primary =
                                   IF acts /\ ok THEN Primary(@, saved, IsTopLevel(r, i))
                                   ELSE @,
                                 ![r].resolved =
                                   Append(@, IF ~acts THEN "none"
                                             ELSE IF ok THEN "saved" ELSE "failed")]
          /\ events' = Log(r, IF acts THEN <<"mediaFetch">> ELSE <<>>)
  /\ UNCHANGED <<authVars, callVars, cfg, req, phase, res, body, pc, allowStore, pending, outbox, errorLog,
                 rejections>>

\* mediaPaths.length > 0 ? mediaPaths : undefined, monitor.ts:463-464
ListOrUndefined(list) == IF Len(list) > 0 THEN Arr(list) ELSE Undef

\* A slip: the context carries the sender id as it was posted, untrimmed
ContextPayloadRaw(r) ==
  [RawBody |-> loc[r].text, SenderId |-> Field(body[r].result.value, "from").s,
   MediaPath |-> loc[r].primary.path, MediaType |-> loc[r].primary.contentType,
   MediaPaths |-> ListOrUndefined(loc[r].mediaPaths),
   MediaTypes |-> ListOrUndefined(loc[r].mediaTypes)]

\* The fields of ctxPayload that come from the message, monitor.ts:443-467
ContextPayload(r) ==
  [RawBody |-> loc[r].text, SenderId |-> loc[r].from,
   MediaPath |-> loc[r].primary.path, MediaType |-> loc[r].primary.contentType,
   MediaPaths |-> ListOrUndefined(loc[r].mediaPaths),
   MediaTypes |-> ListOrUndefined(loc[r].mediaTypes)]

\* Context build and the call of the backend dispatcher, monitor.ts:425-502
Dispatch(r) ==
  /\ pc[r] = "media"
  /\ loc[r].mediaDone = Len(MediaItems(r))
  /\ loc' = [loc EXCEPT ![r].dispatched = Append(@, ContextPayload(r))]
  /\ events' = Log(r, <<"dispatch">>)
  /\ pc' = [pc EXCEPT ![r] = "dispatching"]
  /\ UNCHANGED <<authVars, callVars, cfg, req, phase, res, body, allowStore, pending, outbox, errorLog,
                 rejections>>

\* The backend calls the deliver callback, monitor.ts:484-495
Deliver(r) ==
  /\ pc[r] = "dispatching"
  /\ loc[r].delivered < MaxDeliver
  /\ \E ok \in BOOLEAN :
       outbox' = [outbox EXCEPT ![r] =
                    Append(@, [kind |-> "reply", ok |-> ok, to |-> loc[r].from])]
  /\ loc' = [loc EXCEPT ![r].delivered = @ + 1]
  /\ events' = Log(r, <<"deliver">>)
  /\ UNCHANGED <<authVars, callVars, cfg, req, phase, res, body, pc, allowStore, pending, errorLog,
                 rejections>>

\* The dispatcher's promise settles: the await of monitor.ts:480 returns or throws
DispatchSettles(r) ==
  /\ pc[r] = "dispatching"
  /\ \E ok \in BOOLEAN : pc' = [pc EXCEPT ![r] = IF ok THEN "done" ELSE "rejected"]
  /\ UNCHANGED <<authVars, callVars, cfg, req, phase, res, body, loc, events, allowStore, pending, outbox,
                 errorLog, rejections>>

\* A slip: processInboundMessage(...) is called with no .catch
HasNoCatch == FALSE

\* processInboundMessage({...}).catch((err) => runtime.error?.(...)), monitor.ts:789-791
HasCatch == TRUE

\* A rejection of the pipeline's promise reaches its handler
PipelineRejects(r) ==
  /\ pc[r] = "rejected"
  /\ pc' = [pc EXCEPT ![r] = "done"]
  /\ IF HasCatch
       THEN /\ errorLog' = [errorLog EXCEPT ![r] = @ + 1]
            /\ events' = Log(r, <<"caught">>)
            /\ UNCHANGED rejections
       ELSE /\ rejections' = rejections \cup {r}
            /\ UNCHANGED <<errorLog, events>>
  /\ UNCHANGED <<authVars, callVars, cfg, req, phase, res, body, loc, allowStore, pending, outbox>>

\* The approval CLI moves a pending id to the dynamic allow-list
ApprovePairing ==
  /\ \E id \in pending :
       /\ pending' = pending \ {id}
       /\ allowStore' = allowStore \cup {id}
  /\ UNCHANGED <<authVars, callVars, cfg, req, phase, res, body, pc, loc, events, outbox, errorLog,
                 rejections>>

----------------------------------------------------------------------------
(* Inputs *)

TokenXY == <<"x","y">>
SenderA == <<"a">>
SenderB == <<"b">>
Hi == <<"h","i">>
WebhookUrl == <<"/","w">>
MediaUrl == HttpsPrefix \o <<"m">>

Config(rawPath, policy, enabled, allow) ==
  [path |-> rawPath, token |-> TokenXY, dmPolicy |-> policy, allowFrom |-> allow,
   dmEnabled |-> enabled]

\* A superRefine that adds no issue
DmConfigValidAlways(policy, allow) == TRUE

\* HttpWebhookDmSchema's superRefine, types.config.ts:29-38
DmConfigValid(policy, allow) ==
  ~((IF policy = "undef" THEN "pairing" ELSE policy) = "open" /\ Star \notin allow)

RawPaths == {Undef, Str(<<"w">>), Str(<<"/","w","/">>), Str(<<" ","/","w"," ">>)}

\* The listener specification: every path spelling, four DM configurations
ListenerConfigs ==
  {Config(p, d[1], d[2], d[3]) :
     p \in RawPaths,
     d \in {<<"undef", "undef", {}>>, <<"pairing", "false", {SenderA}>>,
            <<"open", "undef", {Star}>>, <<"allowlist", "undef", {SenderA}>>}}

\* The pairing specification: the pairing policy and an empty static allow-list;
\* a sender becomes allowed when its pairing request is approved
PairingConfigs == {Config(Undef, "pairing", "undef", {})}

\* The policy specification: the default path, every valid DM configuration
PolicyConfigs ==
  {c \in {Config(Undef, policy, enabled, allow) :
            policy \in {"undef", "pairing", "open", "disabled", "allowlist"},
            enabled \in {"undef", "false"},
            allow \in {{}, {Star}, {SenderA}}} :
     DmConfigValid(c.dmPolicy, c.allowFrom)}

Urls == {healthPath, <<"/">>, WebhookUrl, <<"/","w","/">>, <<"/","x">>}

ListenerHeaders ==
  {Undef, Str(<<>>),
   Str(BearerSp \o TokenXY),
   Str(<<"b","e","a","r","e","r"," ">> \o TokenXY),
   Str(BearerSp \o <<"x","z">>),
   Str(BearerSp \o <<"x">>),
   Str(BearerSp \o TokenXY \o <<" ","z">>),
   Str(<<"B","a","s","i","c"," ">> \o TokenXY),
   Str(TokenXY)}

Requests ==
  [url : Urls, ezail : {Undef, Str(BearerSp \o TokenXY), Str(BearerSp \o <<"x","z">>)},
   authorization : ListenerHeaders,
   method : {"POST", "GET"}]

\* An authenticated POST to the webhook path
GoodRequest(url) ==
  [url |-> url, ezail |-> Undef, authorization |-> Str(BearerSp \o TokenXY),
   method |-> "POST"]

Json(v) == [value |-> v, kind |-> "json"]

MsgTool == [role |-> "tool", content |-> Str(<<"r">>)]
MsgSystem == [role |-> "system", content |-> Str(<<"s">>)]
MsgUserParts ==
  [role |-> "user",
   content |-> Arr(<<[text |-> Hi, type |-> "text"],
                     [type |-> "image", mediaType |-> Undef, image |-> Str(MediaUrl)]>>)]

FromValues ==
  {Undef, Null, Str(<<>>), Str(<<" ">>), Str(SenderA), Str(<<" ">> \o SenderB), Num(5)}
TextValues == {Undef, Str(<<" ">>), Str(Hi), Num(7)}
MessagesValues ==
  {Undef, Str(<<"m">>), Arr(<<>>), Arr(<<MsgTool>>), Arr(<<MsgSystem, MsgUserParts>>)}

\* The body texts of the listener specification
ListenerTexts ==
  {[kind |-> "empty"], [kind |-> "blank"], [kind |-> "garbage"]}
  \cup {Json(v) : v \in {Null, Num(5), Str(<<"s">>), Arr(<<>>)}}
  \cup {Json(Obj(f, t, m, u)) :
          f \in FromValues, t \in TextValues, m \in MessagesValues,
          u \in {Undef, Str(MediaUrl)}}

\* One data event carrying a whole body at the cap, or one byte over it
ListenerSizes == {MaxBodyBytes, MaxBodyBytes + 1}

\* The body specification: how the bytes of a body arrive
ChunkSizes == {1, MaxBodyBytes \div 2, MaxBodyBytes - 1, MaxBodyBytes, MaxBodyBytes + 1}

BodyTexts ==
  {[kind |-> "empty"], [kind |-> "blank"], [kind |-> "garbage"],
   Json(Obj(Str(SenderA), Str(Hi), Undef, Undef)),
   Json(Obj(Undef, Str(Hi), Undef, Undef))}

\* The policy specification: well-formed messages of two senders
PolicyTexts ==
  {Json(Obj(f, Str(Hi), Undef, u)) :
     f \in {Str(SenderA), Str(<<" ">> \o SenderB)}, u \in {Undef, Str(MediaUrl)}}

\* The pairing specification: well-formed text messages of two senders
PairingTexts ==
  {Json(Obj(f, Str(Hi), Undef, Undef)) : f \in {Str(SenderA), Str(<<" ">> \o SenderB)}}

----------------------------------------------------------------------------
(* Specifications *)

\* One request through the listener and the pipeline
Init ==
  /\ InitServer(ListenerConfigs, {{}})
  /\ vbToken = <<>> /\ vbHeader = Undef /\ vbResult = "none"
  /\ NoCall

Next ==
  \/ HandleRequest(1, Requests)
  \/ OnData(1, ListenerSizes)
  \/ OnEnd(1, ListenerTexts)
  \/ OnError(1)
  \/ BodyThen(1)
  \/ CheckPolicy(1)
  \/ PairingBranch(1)
  \/ SendPairingReply(1)
  \/ ResolveMedia(1)
  \/ Dispatch(1)
  \/ Deliver(1)
  \/ DispatchSettles(1)
  \/ PipelineRejects(1)

Spec == Init /\ [][Next]_vars

\* validateBearerToken on drawn arguments
InitValidate ==
  /\ InitAuth
  /\ NoCall
  /\ InitServer({Config(Undef, "undef", "undef", {})}, {{}})

NextValidate == CallValidate

SpecValidate == InitValidate /\ [][NextValidate]_vars

\* The body of one authenticated POST arriving in chunks
InitBody ==
  /\ InitServer({Config(Undef, "undef", "undef", {})}, {{}})
  /\ vbToken = <<>> /\ vbHeader = Undef /\ vbResult = "none"
  /\ NoCall

NextBody ==
  \/ HandleRequest(1, {GoodRequest(<<"/">>)})
  \/ OnData(1, ChunkSizes)
  \/ OnEnd(1, BodyTexts)
  \/ OnError(1)
  \/ BodyThen(1)

SpecBody == InitBody /\ [][NextBody]_vars

\* One well-formed request under every DM configuration
InitPolicy ==
  /\ InitServer(PolicyConfigs, {{}, {SenderB}})
  /\ vbToken = <<>> /\ vbHeader = Undef /\ vbResult = "none"
  /\ NoCall

NextPolicy ==
  \/ HandleRequest(1, {GoodRequest(<<"/">>)})
  \/ OnData(1, {MaxBodyBytes})
  \/ OnEnd(1, PolicyTexts)
  \/ BodyThen(1)
  \/ CheckPolicy(1)
  \/ PairingBranch(1)
  \/ SendPairingReply(1)
  \/ ResolveMedia(1)
  \/ Dispatch(1)
  \/ Deliver(1)
  \/ DispatchSettles(1)
  \/ PipelineRejects(1)

SpecPolicy == InitPolicy /\ [][NextPolicy]_vars

\* Concurrent requests of unpaired and paired senders under the pairing policy
InitPairing ==
  /\ InitServer(PairingConfigs, {{}})
  /\ vbToken = <<>> /\ vbHeader = Undef /\ vbResult = "none"
  /\ NoCall

NextPairing ==
  \/ \E r \in Reqs : HandleRequest(r, {GoodRequest(<<"/">>)})
  \/ \E r \in Reqs : OnData(r, {MaxBodyBytes})
  \/ \E r \in Reqs : OnEnd(r, PairingTexts)
  \/ \E r \in Reqs : BodyThen(r)
  \/ \E r \in Reqs : CheckPolicy(r)
  \/ \E r \in Reqs : PairingBranch(r)
  \/ \E r \in Reqs : SendPairingReply(r)
  \/ \E r \in Reqs : Dispatch(r)
  \/ \E r \in Reqs : Deliver(r)
  \/ \E r \in Reqs : DispatchSettles(r)
  \/ \E r \in Reqs : PipelineRejects(r)
  \/ ApprovePairing

SpecPairing == InitPairing /\ [][NextPairing]_vars

\* The messages drawn for convertMessagesToTextAndMedia: two system entries,
\* user strings (one of them blank), user parts with an image and with a
\* file, an assistant entry with array content, a tool entry
MsgSystemT == [role |-> "system", content |-> Str(<<"t">>)]
MsgUser == [role |-> "user", content |-> Str(<<"u">>)]
MsgUserBlank == [role |-> "user", content |-> Str(<<" ">>)]
MsgUserFile ==
  [role |-> "user",
   content |-> Arr(<<[type |-> "file", data |-> Str(<<"A","A">>), mediaType |-> Str(<<"p">>)],
                     [text |-> <<"y">>, type |-> "text"]>>)]
MsgAssistant == [role |-> "assistant", content |-> Str(<<"a">>)]
MsgAssistantParts == [role |-> "assistant", content |-> Arr(<<[text |-> <<"a">>, type |-> "text"]>>)]

ConvertMessages ==
  {MsgSystem, MsgSystemT, MsgUser, MsgUserBlank, MsgUserParts, MsgUserFile, MsgAssistant,
   MsgAssistantParts, MsgTool}

RECURSIVE SeqsUpTo(_, _)
SeqsUpTo(S, n) ==
  IF n = 0 THEN {<<>>}
  ELSE LET shorter == SeqsUpTo(S, n - 1)
       IN shorter \cup {Append(q, x) : q \in {t \in shorter : Len(t) = n - 1}, x \in S}

\* convertMessagesToTextAndMedia on drawn messages
InitConvert ==
  /\ InitServer({Config(Undef, "undef", "undef", {})}, {{}})
  /\ vbToken = <<>> /\ vbHeader = Undef /\ vbResult = "none"
  /\ callArgs \in {<<messages>> : messages \in SeqsUpTo(ConvertMessages, MaxMsgs)}
  /\ callDone = FALSE
  /\ callResult = <<>>
  /\ NoOutbound

CallConvert ==
  /\ ~callDone
  /\ callDone' = TRUE
  /\ callResult' = convertMessagesToTextAndMedia(callArgs[1])
  /\ UNCHANGED <<authVars, callArgs, outVars, trackVars, serverVars>>

NextConvert == CallConvert

SpecConvert == InitConvert /\ [][NextConvert]_vars

\* Inputs of extractMediaFromPart: a URL object, strings of every prefix the
\* function tests, data URLs put together from their parts, byte buffers and
\* values of no handled shape
UrlObject == [t |-> "url", href |-> <<"h","t","t","p",":","/","/","m","/">>]

DataUrlStrings ==
  {DataPrefix \o type \o param \o mark \o <<",">> \o payload :
     type \in {<<>>, <<"p">>}, param \in {<<>>, <<";","x">>},
     mark \in {<<>>, Base64Mark}, payload \in {<<>>, <<"A">>, <<"A","\n","B">>, <<"A",",","B">>}}

ExtractStrings ==
  {HttpPrefix \o <<"m">>, HttpsPrefix \o <<"m">>, <<"H">> \o Tail(HttpPrefix),
   DataPrefix \o <<"p">>, <<>>, <<"A","A">>, <<"d","a","t","a">>}
  \cup DataUrlStrings

ByteValues == {0, 77, 255}

ExtractData ==
  {UrlObject, Undef, Null, Num(5)}
  \cup {Str(x) : x \in ExtractStrings}
  \cup {[t |-> kind, bytes |-> b] : kind \in {"Uint8Array", "ArrayBuffer"},
                                    b \in SeqsUpTo(ByteValues, MaxBytes)}

\* extractMediaFromPart on drawn data and media types
InitExtract ==
  /\ InitServer({Config(Undef, "undef", "undef", {})}, {{}})
  /\ vbToken = <<>> /\ vbHeader = Undef /\ vbResult = "none"
  /\ callArgs \in {<<data, mediaType>> : data \in ExtractData, mediaType \in {Undef, Str(<<"g">>)}}
  /\ callDone = FALSE
  /\ callResult = <<>>
  /\ NoOutbound

CallExtract ==
  /\ ~callDone
  /\ callDone' = TRUE
  /\ callResult' = extractMediaFromPart(callArgs[1], callArgs[2])
  /\ UNCHANGED <<authVars, callArgs, outVars, trackVars, serverVars>>

NextExtract == CallExtract

SpecExtract == InitExtract /\ [][NextExtract]_vars

\* The media specification: a user message of one text part followed by media
\* parts (an image URL, base64 file data with and without a media type, a data
\* URL with an empty payload), with and without a top-level mediaUrl
MediaParts ==
  {[type |-> "image", mediaType |-> Undef, image |-> Str(MediaUrl)],
   [type |-> "file", data |-> Str(<<"A","A">>), mediaType |-> Str(<<"p">>)],
   [type |-> "file", data |-> Str(<<"A","A">>), mediaType |-> Undef],
   [type |-> "image", mediaType |-> Undef, image |-> Str(DataPrefix \o <<",">>)]}

MediaTexts ==
  {Json(Obj(Str(SenderA), Undef,
            Arr(<<[role |-> "user",
                   content |-> Arr(<<[text |-> Hi, type |-> "text"]>> \o parts)]>>),
            u)) :
     parts \in UNION {[1..n -> MediaParts] : n \in 0..MaxParts},
     u \in {Undef, Str(MediaUrl)}}

InitMedia ==
  /\ InitServer({Config(Undef, "open", "undef", {Star})}, {{}})
  /\ vbToken = <<>> /\ vbHeader = Undef /\ vbResult = "none"
  /\ NoCall

NextMedia ==
  \/ HandleRequest(1, {GoodRequest(<<"/">>)})
  \/ OnData(1, {MaxBodyBytes})
  \/ OnEnd(1, MediaTexts)
  \/ BodyThen(1)
  \/ CheckPolicy(1)
  \/ ResolveMedia(1)
  \/ Dispatch(1)
  \/ DispatchSettles(1)
  \/ PipelineRejects(1)

SpecMedia == InitMedia /\ [][NextMedia]_vars

----------------------------------------------------------------------------
(* sendHttpWebhookMessage, types.config.ts:66-140 *)

\* HttpWebhookApiResponse: { ok, error?, messageId? }; an HTTP failure's
\* `HTTP ${status}: ${statusText}` is kept as error "HTTP" and the status
Failure(error, status) == [ok |-> FALSE, error |-> error, status |-> status, messageId |-> Undef]
Success(messageId) == [ok |-> TRUE, error |-> "", status |-> 0, messageId |-> messageId]
NoResult == [ok |-> FALSE, error |-> "pending", status |-> 0, messageId |-> Undef]

\* account.config.outbound of HttpWebhookOutboundSchema, or undefined
Outbound(url, outboundToken, timeoutSeconds) ==
  [t |-> "obj", url |-> url, token |-> outboundToken, timeoutSeconds |-> timeoutSeconds]

\* types.config.ts:73-79, "" when both checks pass
PreconditionsUrlOnly(outbound) ==
  IF outbound.t = "undef" \/ ~Truthy(outbound.url) THEN "outbound.url not configured"
  ELSE ""

Preconditions(outbound) ==
  IF outbound.t = "undef" \/ ~Truthy(outbound.url) THEN "outbound.url not configured"
  ELSE IF ~Truthy(outbound.token) THEN "outbound.token not configured"
  ELSE ""

\* (outbound.timeoutSeconds ?? 30) * 1000
TimeoutMs(outbound) ==
  (IF outbound.timeoutSeconds.t = "num" THEN outbound.timeoutSeconds.n ELSE 30) * 1000

\* clearTimeout(timeoutId): a pending timer is cancelled, a fired one stays fired
clearTimeoutKept(timer) == timer

clearTimeout(timer) == IF timer = "pending" THEN "cleared" ELSE timer

\* What a rejected fetch or a failed JSON.stringify throws
ErrorOf(name, message) == [name |-> name, message |-> message, isError |-> TRUE]
Thrown(string) == [name |-> "", message |-> string, isError |-> FALSE]
AbortError == ErrorOf("AbortError", "This operation was aborted")

\* The catch block, types.config.ts:130-139
CatchResult(err) ==
  IF err.isError
    THEN IF err.name = "AbortError" THEN Failure("request timeout", 0)
         ELSE Failure(err.message, 0)
    ELSE Failure(err.message, 0)

Caught(send, err) ==
  [send EXCEPT !.pc = "returned", !.timer = clearTimeout(@), !.thrown = err,
               !.result = CatchResult(err)]

\* The call up to its first await: the two checks, the timer, the fetch;
\* JSON.stringify(message) runs inside the try
NewSend(by, outbound, message) ==
  LET idle == [pc |-> "returned", message |-> message, result |-> NoResult,
               outbound |-> outbound, timer |-> "none", request |-> "none",
               thrown |-> Undef, by |-> by, timeoutMs |-> 0,
               response |-> Undef, parsed |-> Undef]
  IN IF Preconditions(outbound) # ""
       THEN [idle EXCEPT !.result = Failure(Preconditions(outbound), 0)]
     ELSE IF message.circular
       THEN Caught([idle EXCEPT !.timer = "pending", !.timeoutMs = TimeoutMs(outbound)],
                   ErrorOf("TypeError", "Converting circular structure to JSON"))
     ELSE [idle EXCEPT !.pc = "fetching", !.timer = "pending", !.request = "inFlight",
                       !.timeoutMs = TimeoutMs(outbound)]

\* String.prototype.includes
includes(s, p) == \E i \in 0..(Len(s) - Len(p)) : SubSeq(s, i + 1, i + Len(p)) = p

ApplicationJson == <<"a","p","p","l","i","c","a","t","i","o","n","/","j","s","o","n">>

\* contentType?.includes("application/json")
IsJson(contentType) == contentType.t = "str" /\ includes(contentType.s, ApplicationJson)

\* response.ok
ResponseOk(status) == status \in 200..299

\* setTimeout's callback, types.config.ts:83: controller.abort()
TimerFires(k) ==
  /\ k \in 1..Len(sends)
  /\ sends[k].timer = "pending"
  /\ sends' = [sends EXCEPT ![k].timer = "fired",
                            ![k].request = IF @ = "inFlight" THEN "aborted" ELSE @]
  /\ UNCHANGED <<authVars, callArgs, callDone, callResult, replies, plugin, trackVars, serverVars>>

\* The aborted fetch rejects with an AbortError: the catch block
AbortRejects(k) ==
  /\ k \in 1..Len(sends)
  /\ sends[k].pc = "fetching"
  /\ sends[k].request = "aborted"
  /\ sends' = [sends EXCEPT ![k] = Caught(@, AbortError)]
  /\ UNCHANGED <<authVars, callArgs, callDone, callResult, replies, plugin, trackVars, serverVars>>

\* The fetch rejects for another reason: the catch block
FetchRejects(k, errors) ==
  /\ k \in 1..Len(sends)
  /\ sends[k].pc = "fetching"
  /\ sends[k].request = "inFlight"
  /\ \E err \in errors :
       sends' = [sends EXCEPT ![k] = Caught([@ EXCEPT !.request = "done"], err)]
  /\ UNCHANGED <<authVars, callArgs, callDone, callResult, replies, plugin, trackVars, serverVars>>

\* The fetch resolves, types.config.ts:110-123 and 127
Responded(send, status, contentType) ==
  LET got == [send EXCEPT !.request = "done", !.timer = clearTimeout(@),
                          !.response = [contentType |-> contentType, status |-> status]]
  IN IF ~ResponseOk(status)
       THEN [got EXCEPT !.pc = "returned", !.result = Failure("HTTP", status)]
     ELSE IF IsJson(contentType) THEN [got EXCEPT !.pc = "parsing"]
     ELSE [got EXCEPT !.pc = "returned", !.result = Success(Undef)]

FetchResolves(k, statuses, contentTypes) ==
  /\ k \in 1..Len(sends)
  /\ sends[k].pc = "fetching"
  /\ sends[k].request = "inFlight"
  /\ \E status \in statuses, contentType \in contentTypes :
       sends' = [sends EXCEPT ![k] = Responded(@, status, contentType)]
  /\ UNCHANGED <<authVars, callArgs, callDone, callResult, replies, plugin, trackVars, serverVars>>

\* response.json() settles, types.config.ts:121-127: a rejection, or a value
\* whose messageId cannot be read, is swallowed by the inner catch
MessageIdOf(parsed) ==
  IF parsed.t = "obj" THEN parsed.messageId ELSE Undef

JsonSettles(k, bodies) ==
  /\ k \in 1..Len(sends)
  /\ sends[k].pc = "parsing"
  /\ \E parsed \in bodies :
       sends' = [sends EXCEPT ![k].pc = "returned", ![k].parsed = parsed,
                              ![k].result = Success(MessageIdOf(parsed))]
  /\ UNCHANGED <<authVars, callArgs, callDone, callResult, replies, plugin, trackVars, serverVars>>

\* HttpWebhookOutboundMessage: text, to, files
Message(text, to, files, circular) ==
  [text |-> text, to |-> to, circular |-> circular, files |-> files]

FileOf(data) == [data |-> data, mediaType |-> <<"p">>, filename |-> <<"f">>]

OutboundUrl == <<"h","t","t","p","s",":","/","/","o","/">>

SendOutbounds ==
  {Undef} \cup {Outbound(url, tok, secs) : url \in {Undef, Str(OutboundUrl)},
                                           tok \in {Undef, Str(<<>>), Str(<<"k">>)},
                                           secs \in {Undef, Num(5)}}

SendMessages ==
  {Message(text, <<"a">>, files, circular) :
     text \in {<<>>, <<"t">>}, files \in {<<>>, <<FileOf(<<"A">>)>>},
     circular \in BOOLEAN} \ {Message(<<>>, <<"a">>, <<>>, c) : c \in BOOLEAN}

SendStatuses == {199, 200, 299, 300, 500}
SendContentTypes ==
  {Null, Str(ApplicationJson), Str(ApplicationJson \o <<";"," ","u">>), Str(<<"t","/","p">>)}
SendErrors == {ErrorOf("TypeError", "fetch failed"), Thrown("boom")}

\* What response.json() gives: an object with or without messageId, null, a
\* string, or a rejection
ParsedObject(messageId) == [t |-> "obj", messageId |-> messageId]
SendBodies ==
  {ParsedObject(Str(<<"m">>)), ParsedObject(Undef), Null, Str(<<"x">>), [t |-> "rejects"]}

\* One direct call of sendHttpWebhookMessage on a drawn account and message
CallSend ==
  /\ sends = <<>>
  /\ plugin.fn = "none"
  /\ \E outbound \in SendOutbounds, message \in SendMessages :
       sends' = <<NewSend([fn |-> "direct", item |-> 0, id |-> 0], outbound, message)>>
  /\ UNCHANGED <<authVars, callArgs, callDone, callResult, replies, plugin, trackVars, serverVars>>

----------------------------------------------------------------------------
(* deliverHttpWebhookReply, monitor.ts:517-680 *)

\* core.channel.text.chunkMarkdownTextWithMode: the text cut into pieces of
\* at most limit characters, in order
RECURSIVE chunkMarkdownTextWithMode(_, _)
chunkMarkdownTextWithMode(text, limit) ==
  IF text = <<>> THEN <<>>
  ELSE IF Len(text) <= limit THEN <<text>>
  ELSE <<SubSeq(text, 1, limit)>> \o chunkMarkdownTextWithMode(Drop(text, limit), limit)

Payload(text, mediaUrls, mediaUrl) ==
  [text |-> text, mediaUrl |-> mediaUrl, mediaUrls |-> mediaUrls]

\* monitor.ts:536-540
MediaList(payload) ==
  IF payload.mediaUrls.t = "arr" /\ payload.mediaUrls.a # <<>> THEN payload.mediaUrls.a
  ELSE IF Truthy(payload.mediaUrl) THEN <<payload.mediaUrl>>
  ELSE <<>>

\* payload.text || ""
TextOrEmpty(text) == IF Truthy(text) THEN text.s ELSE <<>>

IsRemoteUrl(mediaUrl) ==
  startsWith(mediaUrl.s, HttpPrefix) \/ startsWith(mediaUrl.s, HttpsPrefix)

\* The state of one delivery before its first step
NewReply(id, payload, outbound, chunkLimit) ==
  [pc |-> "start", i |-> 0, payload |-> payload, chunks |-> <<>>,
   id |-> id, failed |-> {}, to |-> <<"a">>, list |-> <<>>,
   outbound |-> outbound, chunkLimit |-> chunkLimit, awaiting |-> 0, log |-> <<>>, lastOutboundAt |-> 0]

\* runtime.log?.(...) and runtime.error?.(...)
Logged(reply, level, what) ==
  [reply EXCEPT !.log = Append(@, [item |-> reply.i, level |-> level, what |-> what])]

\* The head of the media loop, run up to its next await: empty entries are
\* skipped with an error report, monitor.ts:544-553 and 603
RECURSIVE AtItem(_)
AtItem(reply) ==
  IF reply.i > Len(reply.list) THEN [reply EXCEPT !.pc = "done"]
  ELSE IF ~Truthy(reply.list[reply.i])
    THEN AtItem([Logged(reply, "error", "skipping undefined/empty mediaUrl")
                   EXCEPT !.i = @ + 1])
  ELSE IF IsRemoteUrl(reply.list[reply.i])
    THEN [Logged(reply, "log", "downloading remote URL") EXCEPT !.pc = "downloading"]
  ELSE [reply EXCEPT !.pc = "reading"]

\* await sendHttpWebhookMessage({ account, message }) from a delivery
AwaitSend(reply, message) ==
  /\ sends' = Append(sends, NewSend([fn |-> "deliver", item |-> reply.i, id |-> reply.id],
                                    reply.outbound, message))
  /\ replies' = [replies EXCEPT ![reply.id] = [reply EXCEPT !.awaiting = Len(sends) + 1]]

\* The message of a media item, monitor.ts:565-579 and 617-631
MediaMessage(reply) ==
  Message(TextOrEmpty(reply.payload.text), reply.to, <<FileOf(reply.list[reply.i].s)>>, FALSE)

\* The message of the fallback and of a text chunk
TextMessage(reply, text) == Message(text, reply.to, <<>>, FALSE)

\* A read or a download of the current item has failed
Failing(reply) == [reply EXCEPT !.failed = @ \cup {reply.i}]

\* The inner catch blocks, monitor.ts:581-599 and 633-651
FallbackStops(reply) ==
  /\ replies' = [replies EXCEPT ![reply.id] = [reply EXCEPT !.pc = "done"]]
  /\ UNCHANGED sends

Fallback(reply) ==
  IF Truthy(reply.payload.text)
    THEN AwaitSend([reply EXCEPT !.pc = "fallback"], TextMessage(reply, reply.payload.text.s))
    ELSE /\ replies' = [replies EXCEPT ![reply.id] = AtItem([reply EXCEPT !.i = @ + 1])]
         /\ UNCHANGED sends

\* The text loop at chunk reply.i, monitor.ts:662-677
AtChunk(reply) ==
  IF reply.i > Len(reply.chunks)
    THEN /\ replies' = [replies EXCEPT ![reply.id] = [reply EXCEPT !.pc = "done"]]
         /\ UNCHANGED sends
    ELSE AwaitSend([reply EXCEPT !.pc = "chunk"], TextMessage(reply, reply.chunks[reply.i]))

\* monitor.ts:527-542 and 657-661: the usage summary is loaded (a failure is
\* reported and the delivery goes on), then the media list decides the branch
Begun(reply, usageLoaded) ==
  [(IF usageLoaded THEN reply ELSE Logged(reply, "error", "failed to load usage summary"))
     EXCEPT !.list = MediaList(reply.payload), !.i = 1]

DeliverStart(r, usages) ==
  /\ r \in DOMAIN replies
  /\ replies[r].pc = "start"
  /\ \E usageLoaded \in usages :
       LET reply == Begun(replies[r], usageLoaded)
       IN IF reply.list # <<>>
            THEN replies' = [replies EXCEPT ![r] = AtItem(reply)] /\ UNCHANGED sends
          ELSE IF Truthy(reply.payload.text)
            THEN AtChunk([reply EXCEPT !.chunks =
                            chunkMarkdownTextWithMode(reply.payload.text.s, reply.chunkLimit)])
          ELSE replies' = [replies EXCEPT ![r] = [reply EXCEPT !.pc = "done"]] /\ UNCHANGED sends
  /\ UNCHANGED <<authVars, callArgs, callDone, callResult, plugin, trackVars, serverVars>>

\* await readFile(mediaUrl), monitor.ts:558-580
ReadSettles(r) ==
  /\ r \in DOMAIN replies
  /\ replies[r].pc = "reading"
  /\ \E read \in BOOLEAN :
       IF read
         THEN AwaitSend([Logged(replies[r], "log", "sending local file") EXCEPT !.pc = "media"],
                        MediaMessage(replies[r]))
         ELSE Fallback(Logged(Failing(replies[r]), "error", "failed to read local file"))
  /\ UNCHANGED <<authVars, callArgs, callDone, callResult, plugin, trackVars, serverVars>>

\* await fetch(mediaUrl), monitor.ts:606-609: a rejection and a response that
\* is not ok both end in the catch block
DownloadSettles(r) ==
  /\ r \in DOMAIN replies
  /\ replies[r].pc = "downloading"
  /\ \E fetched \in {"ok", "rejects", "notOk"} :
       IF fetched = "ok"
         THEN replies' = [replies EXCEPT ![r].pc = "buffering"] /\ UNCHANGED sends
         ELSE Fallback(Logged(Failing(replies[r]), "error", "failed to download remote URL"))
  /\ UNCHANGED <<authVars, callArgs, callDone, callResult, plugin, trackVars, serverVars>>

\* await response.arrayBuffer(), monitor.ts:610-632
BufferSettles(r) ==
  /\ r \in DOMAIN replies
  /\ replies[r].pc = "buffering"
  /\ \E buffered \in BOOLEAN :
       IF buffered
         THEN AwaitSend([Logged(replies[r], "log", "sending remote file") EXCEPT !.pc = "media"],
                        MediaMessage(replies[r]))
         ELSE Fallback(Logged(Failing(replies[r]), "error", "failed to download remote URL"))
  /\ UNCHANGED <<authVars, callArgs, callDone, callResult, plugin, trackVars, serverVars>>

\* The awaited call has returned; its result is not looked at
SendCompletedAlways(k) == TRUE

SendCompleted(k) == sends[k].pc = "returned"

\* statusSink?.({ lastOutboundAt }), then the next item or the next chunk
SendReturns(r) ==
  /\ r \in DOMAIN replies
  /\ replies[r].pc \in {"media", "fallback", "chunk"}
  /\ SendCompleted(replies[r].awaiting)
  /\ LET reply == [replies[r] EXCEPT !.lastOutboundAt = @ + 1, !.i = @ + 1]
     IN IF replies[r].pc = "chunk"
          THEN AtChunk(reply)
          ELSE replies' = [replies EXCEPT ![r] = AtItem(reply)] /\ UNCHANGED sends
  /\ UNCHANGED <<authVars, callArgs, callDone, callResult, plugin, trackVars, serverVars>>

LocalPath == <<"/","f">>
RemoteUrl == HttpPrefix \o <<"m">>

MediaUrlLists == SeqsUpTo({Str(<<>>), Str(LocalPath), Str(RemoteUrl)}, MaxMedia)

DeliverPayloads ==
  {Payload(text, mediaUrls, mediaUrl) :
     text \in {Undef, Str(<<"t","u">>)},
     mediaUrls \in {Undef} \cup {Arr(list) : list \in MediaUrlLists},
     mediaUrl \in {Undef, Str(LocalPath)}}

ConfiguredOutbound == Outbound(Str(OutboundUrl), Str(<<"k">>), Undef)

DeliverStatuses == {200, 500}

InitReplies(ids, payloads, limits) ==
  /\ InitServer({Config(Undef, "undef", "undef", {})}, {{}})
  /\ vbToken = <<>> /\ vbHeader = Undef /\ vbResult = "none"
  /\ callArgs = <<>> /\ callDone = FALSE /\ callResult = <<>>
  /\ sends = <<>>
  /\ plugin = [fn |-> "none"]
  /\ NoTracker
  /\ replies \in {f \in [ids -> {NewReply(id, payload, ConfiguredOutbound, limit) :
                                   id \in ids, payload \in payloads, limit \in limits}] :
                    \A id \in ids : f[id].id = id}

\* One delivery of a drawn reply payload
InitDeliver == InitReplies({1}, DeliverPayloads, {1, 2})

NextDeliver ==
  \/ \E r \in DOMAIN replies : DeliverStart(r, BOOLEAN)
  \/ \E r \in DOMAIN replies : ReadSettles(r)
  \/ \E r \in DOMAIN replies : DownloadSettles(r)
  \/ \E r \in DOMAIN replies : BufferSettles(r)
  \/ \E r \in DOMAIN replies : SendReturns(r)
  \/ \E k \in DOMAIN sends : FetchResolves(k, DeliverStatuses, {Null})
  \/ \E k \in DOMAIN sends : TimerFires(k)
  \/ \E k \in DOMAIN sends : AbortRejects(k)

SpecDeliver == InitDeliver /\ [][NextDeliver]_vars

\* The deliveries of concurrent requests: a text reply of two chunks or a
\* reply with a local and a remote media item
ConcurrentPayloads ==
  {Payload(Str(<<"t","u">>), Undef, Undef),
   Payload(Str(<<"t">>), Arr(<<Str(LocalPath), Str(RemoteUrl)>>), Undef)}

InitConcurrent == InitReplies(1..NReplies, ConcurrentPayloads, {1})

NextConcurrent ==
  \/ \E r \in DOMAIN replies : DeliverStart(r, {TRUE})
  \/ \E r \in DOMAIN replies : ReadSettles(r)
  \/ \E r \in DOMAIN replies : DownloadSettles(r)
  \/ \E r \in DOMAIN replies : BufferSettles(r)
  \/ \E r \in DOMAIN replies : SendReturns(r)
  \/ \E k \in DOMAIN sends : FetchResolves(k, {200}, {Null})

SpecConcurrent == InitConcurrent /\ [][NextConcurrent]_vars

----------------------------------------------------------------------------
(* The plugin's outbound adapter and direct calls of sendHttpWebhookMessage *)

\* outbound.sendText and outbound.sendMedia, index.ts:341-420

PluginOutbounds == {Undef, ConfiguredOutbound}

PluginCall(fn, pcOf, text, mediaUrl, outbound) ==
  [pc |-> pcOf, fn |-> fn, text |-> text, mediaUrl |-> mediaUrl, messageId |-> Undef,
   outbound |-> outbound]

\* sendText up to its await: the text goes into the message as it came
SendText ==
  /\ sends = <<>>
  /\ plugin.fn = "none"
  /\ \E text \in {<<>>, <<"t">>}, outbound \in PluginOutbounds :
       /\ plugin' = PluginCall("sendText", "sending", Str(text), Undef, outbound)
       /\ sends' = <<NewSend([fn |-> "sendText", item |-> 0, id |-> 0], outbound,
                             Message(text, <<"a">>, <<>>, FALSE))>>
  /\ UNCHANGED <<authVars, callArgs, callDone, callResult, replies, trackVars, serverVars>>

\* sendMedia up to its first await: a missing mediaUrl throws
SendMedia ==
  /\ sends = <<>>
  /\ plugin.fn = "none"
  /\ \E text \in {Undef, Str(<<"t">>)}, outbound \in PluginOutbounds,
        mediaUrl \in {Undef, Str(<<>>), Str(LocalPath), Str(RemoteUrl)} :
       plugin' = PluginCall("sendMedia",
                            IF ~Truthy(mediaUrl) THEN "threw"
                            ELSE IF IsRemoteUrl(mediaUrl) THEN "downloading" ELSE "reading",
                            text, mediaUrl, outbound)
  /\ UNCHANGED <<authVars, callArgs, callDone, callResult, sends, replies, trackVars, serverVars>>

\* await fetch(mediaUrl): a rejection or a response that is not ok throws
MediaDownloaded ==
  /\ plugin.fn = "sendMedia"
  /\ plugin.pc = "downloading"
  /\ \E fetched \in {"ok", "rejects", "notOk"} :
       plugin' = [plugin EXCEPT !.pc = IF fetched = "ok" THEN "reading" ELSE "threw"]
  /\ UNCHANGED <<authVars, callArgs, callDone, callResult, sends, replies, trackVars, serverVars>>

\* await response.arrayBuffer() or await readFile(mediaUrl), then the send
MediaRead ==
  /\ plugin.fn = "sendMedia"
  /\ plugin.pc = "reading"
  /\ \E read \in BOOLEAN :
       IF read
         THEN /\ plugin' = [plugin EXCEPT !.pc = "sending"]
              /\ sends' = <<NewSend([fn |-> "sendMedia", item |-> 0, id |-> 0], plugin.outbound,
                                    Message(TextOrEmpty(plugin.text), <<"a">>,
                                            <<FileOf(plugin.mediaUrl.s)>>, FALSE))>>
         ELSE /\ plugin' = [plugin EXCEPT !.pc = "threw"]
              /\ UNCHANGED sends
  /\ UNCHANGED <<authVars, callArgs, callDone, callResult, replies, trackVars, serverVars>>

\* The send has returned: { channel, messageId: result.messageId ?? "", chatId }
PluginReturns ==
  /\ plugin.fn \in {"sendText", "sendMedia"}
  /\ plugin.pc = "sending"
  /\ SendCompleted(1)
  /\ plugin' = [plugin EXCEPT !.pc = "returned",
                              !.messageId = IF sends[1].result.messageId.t = "undef"
                                              THEN Str(<<>>) ELSE sends[1].result.messageId]
  /\ UNCHANGED <<authVars, callArgs, callDone, callResult, sends, replies, trackVars, serverVars>>

InitSend ==
  /\ InitServer({Config(Undef, "undef", "undef", {})}, {{}})
  /\ vbToken = <<>> /\ vbHeader = Undef /\ vbResult = "none"
  /\ NoCall

NextSend ==
  \/ CallSend
  \/ SendText
  \/ SendMedia
  \/ MediaDownloaded
  \/ MediaRead
  \/ PluginReturns
  \/ \E k \in DOMAIN sends : TimerFires(k)
  \/ \E k \in DOMAIN sends : AbortRejects(k)
  \/ \E k \in DOMAIN sends : FetchRejects(k, SendErrors)
  \/ \E k \in DOMAIN sends : FetchResolves(k, SendStatuses, SendContentTypes)
  \/ \E k \in DOMAIN sends : JsonSettles(k, SendBodies)

SpecSend == InitSend /\ [][NextSend]_vars

----------------------------------------------------------------------------
(* TokenTracker, src/unnamed/part_002:38-265.  Time is counted in hours:   *)
(* the windows 86400000, 604800000 and 2592000000 ms are 24, 168 and 720.  *)

DayHours == 24
WeekHours == 168
MonthHours == 720

EmptyMap == [k \in {} |-> 0]

PeriodNames == {"allTime", "monthly", "weekly", "daily"}

Windowed == {"monthly", "weekly", "daily"}

createEmptyPeriod(startedAt) ==
  [startedAt |-> startedAt, providers |-> EmptyMap, lastUpdatedAt |-> startedAt]

shouldResetPeriodStrict(period, at, duration) == at - period.startedAt > duration

shouldResetPeriod(period, at, duration) == at - period.startedAt >= duration

EmptyData(at) ==
  [allTime |-> createEmptyPeriod(at), monthly |-> createEmptyPeriod(at),
   weekly |-> createEmptyPeriod(at), daily |-> createEmptyPeriod(at)]

\* v ?? d for a number or a string that may be undefined
Nullish(v, d) == IF v.t \in {"undef", "null"} THEN d ELSE IF v.t = "num" THEN v.n ELSE v.s

Unknown == <<"u","n","k","n","o","w","n">>

ZeroUsage ==
  [total |-> 0, input |-> 0, output |-> 0, cacheRead |-> 0, cacheWrite |-> 0,
   requestCount |-> 0]

\* usage.total ?? input + output + cacheRead + cacheWrite
TotalOfGiven(usage) == Nullish(usage.total, 0)

TotalOf(usage) ==
  Nullish(usage.total, Nullish(usage.input, 0) + Nullish(usage.output, 0)
                         + Nullish(usage.cacheRead, 0) + Nullish(usage.cacheWrite, 0))

\* part_002:150-158
TokensOf(usage) ==
  [total |-> TotalOf(usage), input |-> Nullish(usage.input, 0),
   output |-> Nullish(usage.output, 0), cacheRead |-> Nullish(usage.cacheRead, 0),
   cacheWrite |-> Nullish(usage.cacheWrite, 0)]

ModelsOf(period, provider) ==
  IF provider \in DOMAIN period.providers THEN period.providers[provider] ELSE EmptyMap

UsageOf(models, model) == IF model \in DOMAIN models THEN models[model] ELSE ZeroUsage

Added(old, tokens) ==
  [total |-> old.total + tokens.total, input |-> old.input + tokens.input,
   output |-> old.output + tokens.output,
   cacheRead |-> old.cacheRead + tokens.cacheRead,
   cacheWrite |-> old.cacheWrite + tokens.cacheWrite, requestCount |-> old.requestCount + 1]

WithModel(models, model, tokens) ==
  [m \in DOMAIN models \cup {model} |->
     IF m = model THEN Added(UsageOf(models, model), tokens) ELSE models[m]]

\* part_002:206-241
updatePeriod(period, provider, model, tokens, at) ==
  [startedAt |-> period.startedAt,
   providers |-> [q \in DOMAIN period.providers \cup {provider} |->
                    IF q = provider THEN WithModel(ModelsOf(period, provider), model, tokens)
                    ELSE period.providers[q]],
   lastUpdatedAt |-> at]

\* One period of handleUsageEvent: the reset check, then the update
Handled(period, duration, event, at) ==
  updatePeriod(IF duration > 0 /\ shouldResetPeriod(period, at, duration)
                 THEN createEmptyPeriod(at) ELSE period,
               Nullish(event.provider, Unknown), Nullish(event.model, Unknown),
               TokensOf(event.usage), at)

\* part_002:149-204; allTime has no window
handleUsageEvent(data, event, at) ==
  [allTime |-> Handled(data.allTime, 0, event, at),
   monthly |-> Handled(data.monthly, MonthHours, event, at),
   weekly |-> Handled(data.weekly, WeekHours, event, at),
   daily |-> Handled(data.daily, DayHours, event, at)]

\* updatePeriod(this.data.allTime, ...) reads providers of undefined,
\* part_002:173 and 214: a TypeError in the listener
Throws(data) == data.allTime = Undef

\* handleUsageEvent up to that throw: the three reset checks, part_002:162-170
ResetsOnly(data, at) ==
  [allTime |-> data.allTime,
   monthly |-> IF shouldResetPeriod(data.monthly, at, MonthHours)
                 THEN createEmptyPeriod(at) ELSE data.monthly,
   weekly |-> IF shouldResetPeriod(data.weekly, at, WeekHours)
                THEN createEmptyPeriod(at) ELSE data.weekly,
   daily |-> IF shouldResetPeriod(data.daily, at, DayHours)
               THEN createEmptyPeriod(at) ELSE data.daily]

\* What was last done to the tracker: the operation, its argument, the data
\* and the flag before it, and the time
Did(op, arg, t, at) ==
  [at |-> at, op |-> op, arg |-> arg, before |-> t.data, wasDirty |-> t.isDirty,
   hadTimer |-> t.autosaveTimer]

\* No tick of the timer and no call of stop() yet
NoTick == [n |-> 0, wasDirty |-> FALSE, dirtied |-> FALSE, write |-> 0, prior |-> "none"]

NoStop == [n |-> 0, wasDirty |-> FALSE, hadTimer |-> FALSE, write |-> 0, dirty |-> 0]

\* What a caller of getData() holds: the value, whether it is the tracker's own
\* object, and the value as the caller last saw it
Held(alias, value) == [value |-> value, alias |-> alias, seen |-> value]

NotHeld == Held(FALSE, Undef)

\* new TokenTracker({ dataPath, autosaveIntervalMs }), part_002:45-67
NewTracker(at, autosaveIntervalMs) ==
  [data |-> EmptyData(at), log |-> <<>>, isDirty |-> FALSE,
   autosaveTimer |-> autosaveIntervalMs # 0, dirtied |-> FALSE, unsubscribe |-> FALSE,
   emitted |-> 0, held |-> NotHeld, tick |-> NoTick, stopped |-> FALSE, stop |-> NoStop,
   server |-> [handle |-> TRUE, closes |-> 0],
   last |-> [at |-> at, op |-> "new", arg |-> Undef, before |-> EmptyData(at),
             wasDirty |-> FALSE, hadTimer |-> autosaveIntervalMs # 0]]

\* The instants Date.now() takes: around the ends of the windows of periods
\* started at 0 and at 24
Instants == {0, 1, 23, 24, 25, 47, 48, 168, 720}

Advance(instants) ==
  /\ \E t \in instants : t > now /\ now' = t
  /\ UNCHANGED <<authVars, callArgs, callDone, callResult, outVars, tracker, disk, serverVars>>

\* start(), part_002:118-128
TrackerStart ==
  /\ ~tracker.unsubscribe
  /\ tracker' = [tracker EXCEPT !.unsubscribe = TRUE, !.stopped = FALSE,
                                !.last = Did("start", Undef, tracker, now)]
  /\ UNCHANGED <<authVars, callArgs, callDone, callResult, outVars, disk, now, serverVars>>

UsageEvent(provider, model, input, output, cacheRead, cacheWrite, total) ==
  [type |-> "model.usage", usage |-> [total |-> total, input |-> input, output |-> output,
              cacheRead |-> cacheRead, cacheWrite |-> cacheWrite], provider |-> provider,
   model |-> model]

UsageEvents ==
  {UsageEvent(Str(<<"p">>), Str(<<"m">>), Num(1), Num(2), Num(4), Num(8), Undef),
   UsageEvent(Undef, Undef, Num(1), Undef, Undef, Undef, Num(0)),
   UsageEvent(Str(<<"p">>), Str(<<"n">>), Num(1), Undef, Undef, Undef, Num(9)),
   [type |-> "message.sent"]}

\* The diagnostic stream emits an event: the listener of start() runs when
\* subscribed and passes on the events of type model.usage, part_002:123-127
EmitEvent(emittable) ==
  /\ tracker.emitted < MaxEvents
  /\ \E event \in emittable :
       tracker' =
         IF tracker.unsubscribe /\ event.type = "model.usage" /\ Throws(tracker.data)
           THEN [tracker EXCEPT !.data = ResetsOnly(@, now),
                                !.emitted = @ + 1,
                                !.last = Did("threw", event, tracker, now)]
         ELSE IF tracker.unsubscribe /\ event.type = "model.usage"
           THEN [tracker EXCEPT !.data = handleUsageEvent(@, event, now),
                                !.held.value = IF tracker.held.alias
                                                 THEN handleUsageEvent(tracker.data, event, now)
                                                 ELSE @,
                                !.isDirty = TRUE,
                                !.dirtied = TRUE,
                                !.emitted = @ + 1,
                                !.last = Did("usage", event, tracker, now)]
           ELSE [tracker EXCEPT !.emitted = @ + 1,
                                !.last = Did("ignored", event, tracker, now)]
  /\ UNCHANGED <<authVars, callArgs, callDone, callResult, outVars, disk, now, serverVars>>

\* The snapshot file: absent, unreadable, a text that is no JSON, or a JSON text
File(kind, content) == [kind |-> kind, content |-> content]

Absent == File("absent", Undef)

NewDisk(file) == [file |-> file, reading |-> FALSE, writes |-> <<>>, loads |-> 0]

InitTracker(intervals, files) ==
  /\ InitServer({Config(Undef, "undef", "undef", {})}, {{}})
  /\ vbToken = <<>> /\ vbHeader = Undef /\ vbResult = "none"
  /\ callArgs = <<>> /\ callDone = FALSE /\ callResult = <<>>
  /\ sends = <<>> /\ replies = <<>> /\ plugin = [fn |-> "none"]
  /\ now = 0
  /\ disk \in {NewDisk(file) : file \in files}
  /\ tracker \in {NewTracker(0, interval) : interval \in intervals}

\* JSON.stringify(this.data, null, 2): the text, as the JSON value it denotes.
\* A property whose value is undefined is left out.
JsonObject(members) == [t |-> "obj", members |-> members]

stringifyUsage(usage) == JsonObject([k \in DOMAIN usage |-> Num(usage[k])])

stringifyModels(models) ==
  JsonObject([m \in DOMAIN models |-> stringifyUsage(models[m])])

stringifyPeriod(period) ==
  JsonObject([startedAt |-> Num(period.startedAt),
              providers |-> JsonObject([q \in DOMAIN period.providers |->
                                           stringifyModels(period.providers[q])]),
              lastUpdatedAt |-> Num(period.lastUpdatedAt)])

\* Every period written without its providers
stringifyShallow(data) ==
  JsonObject([name \in {n \in DOMAIN data : data[n] # Undef} |->
                stringifyPeriod(createEmptyPeriod(data[name].startedAt))])

stringify(data) ==
  JsonObject([name \in {n \in DOMAIN data : data[n] # Undef} |-> stringifyPeriod(data[name])])

\* JSON.parse(content) as TokenUsageData
parseUsage(v) == [k \in DOMAIN v.members |-> v.members[k].n]

parseModels(v) == [m \in DOMAIN v.members |-> parseUsage(v.members[m])]

parsePeriod(v) ==
  [startedAt |-> v.members.startedAt.n,
   providers |-> [q \in DOMAIN v.members.providers.members |->
                    parseModels(v.members.providers.members[q])],
   lastUpdatedAt |-> v.members.lastUpdatedAt.n]

parse(v) ==
  [name \in PeriodNames |->
     IF name \in DOMAIN v.members THEN parsePeriod(v.members[name]) ELSE Undef]

\* load() throws inside its try: the file cannot be read, is no JSON, or
\* shouldResetPeriod reads startedAt of undefined (part_002:79-90)
LoadThrows(file) ==
  \/ file.kind # "json"
  \/ file.content.t # "obj"
  \/ \E name \in Windowed : name \notin DOMAIN file.content.members

KeptOrFresh(period, at, duration) ==
  IF shouldResetPeriod(period, at, duration) THEN createEmptyPeriod(at) ELSE period

\* part_002:80-93
Loaded(loaded, at) ==
  [allTime |-> loaded.allTime,
   monthly |-> KeptOrFresh(loaded.monthly, at, MonthHours),
   weekly |-> KeptOrFresh(loaded.weekly, at, WeekHours),
   daily |-> KeptOrFresh(loaded.daily, at, DayHours)]

\* load() is called: readFile is in flight
TrackerLoad ==
  /\ ~disk.reading
  /\ disk.loads < MaxLoads
  /\ disk' = [disk EXCEPT !.reading = TRUE, !.loads = @ + 1]
  /\ UNCHANGED <<authVars, callArgs, callDone, callResult, outVars, tracker, now, serverVars>>

\* readFile settles and load() runs to its end, part_002:77-101
LoadSettles ==
  /\ disk.reading
  /\ disk' = [disk EXCEPT !.reading = FALSE]
  /\ tracker' =
       IF ~LoadThrows(disk.file)
         THEN [tracker EXCEPT !.data = Loaded(parse(disk.file.content), now),
                              !.last = Did("load", disk.file, tracker, now)]
       ELSE IF disk.file.kind = "absent"
         THEN [tracker EXCEPT !.last = Did("load", disk.file, tracker, now)]
         ELSE [tracker EXCEPT !.log = Append(@, "Failed to load"),
                              !.last = Did("load", disk.file, tracker, now)]
  /\ UNCHANGED <<authVars, callArgs, callDone, callResult, outVars, now, serverVars>>

\* save() up to its await: the text is made and writeFile is in flight,
\* part_002:108-110
NewWrite(by, arg, data) ==
  [data |-> data, content |-> stringify(data), by |-> by, arg |-> arg, state |-> "pending"]

SaveStarts(by, t) == [disk EXCEPT !.writes = Append(@, NewWrite(by, Undef, t.data))]

\* The caller of a save() that rejected: the timer and stop() log, part_002:61
\* and 144; reset() and a direct caller get the rejection
CaughtBy(by) ==
  IF by = "tick" THEN <<"Failed to save", "Autosave failed">>
  ELSE IF by = "stop" THEN <<"Failed to save", "Final save failed">>
  ELSE <<"Failed to save">>

\* save() is called from outside
TrackerSave ==
  /\ Len(disk.writes) < MaxSaves
  /\ disk' = SaveStarts("save", tracker)
  /\ tracker' = [tracker EXCEPT !.last = Did("save", Undef, tracker, now)]
  /\ UNCHANGED <<authVars, callArgs, callDone, callResult, outVars, now, serverVars>>

\* writeFile settles and save() runs to its end, part_002:110-115.  A failed
\* write leaves the file as it was or, when leftovers has TRUE, cut short.
WriteSettles(oks, leftovers) ==
  \E k \in DOMAIN disk.writes, ok \in oks :
    /\ disk.writes[k].state = "pending"
    /\ IF ok
         THEN /\ disk' = [disk EXCEPT !.writes[k].state = "resolved",
                                      !.file = File("json", disk.writes[k].content)]
              /\ tracker' = [tracker EXCEPT !.isDirty = FALSE,
                                            !.last = Did("written", k, tracker, now)]
         ELSE /\ \E leftover \in leftovers :
                   disk' = [disk EXCEPT !.writes[k].state = "rejected",
                                        !.file = IF leftover THEN File("malformed", Undef)
                                                 ELSE @]
              /\ tracker' = [tracker EXCEPT !.log = @ \o CaughtBy(disk.writes[k].by),
                                            !.last = Did("unwritten", k, tracker, now)]
    /\ UNCHANGED <<authVars, callArgs, callDone, callResult, outVars, now, serverVars>>

\* The state of a write, "none" for the index 0 of no write
WriteState(k) == IF k = 0 THEN "none" ELSE disk.writes[k].state

\* The callback of setInterval answers whether it calls save(), part_002:59
TickWritesAlways(t) == TRUE

TickWrites(t) == t.isDirty

\* What the latest tick found and did: its number (2 for any later one), the flag, the write it
\* started (0 for none), whether the flag was set since the tick before, and
\* how the write of the tick before stands
Ticked(t, k) ==
  [n |-> IF t.tick.n < 2 THEN t.tick.n + 1 ELSE 2, wasDirty |-> t.isDirty, dirtied |-> t.dirtied, write |-> k,
   prior |-> WriteState(t.tick.write)]

\* The autosave timer fires, part_002:58-64
AutosaveTick ==
  /\ tracker.autosaveTimer
  /\ TickWrites(tracker) => Len(disk.writes) < MaxWrites
  /\ IF TickWrites(tracker)
       THEN /\ disk' = SaveStarts("tick", tracker)
            /\ tracker' = [tracker EXCEPT !.tick = Ticked(tracker, Len(disk.writes) + 1),
                                          !.dirtied = FALSE,
                                          !.last = Did("tick", Len(disk.writes) + 1, tracker, now)]
       ELSE /\ disk' = disk
            /\ tracker' = [tracker EXCEPT !.tick = Ticked(tracker, 0),
                                          !.dirtied = FALSE,
                                          !.last = Did("tick", 0, tracker, now)]
  /\ UNCHANGED <<authVars, callArgs, callDone, callResult, outVars, now, serverVars>>

\* stop() saves once more when the flag is set, part_002:142
StopSaves(t) == t.isDirty

\* stop() that leaves the listener of start() subscribed
StoppedStillSubscribed(t, k, at) ==
  [t EXCEPT !.autosaveTimer = FALSE, !.stopped = TRUE,
            !.stop = [n |-> IF @.n < 2 THEN @.n + 1 ELSE 2, wasDirty |-> t.isDirty, hadTimer |-> t.autosaveTimer,
                      write |-> k, dirty |-> IF t.isDirty THEN @.dirty + 1 ELSE @.dirty],
            !.last = Did("stop", k, t, at)]

\* stop(), part_002:130-147, as the tracker after it and the write it started
Stopped(t, k, at) ==
  [t EXCEPT !.autosaveTimer = FALSE, !.unsubscribe = FALSE, !.stopped = TRUE,
            !.stop = [n |-> IF @.n < 2 THEN @.n + 1 ELSE 2, wasDirty |-> t.isDirty, hadTimer |-> t.autosaveTimer,
                      write |-> k, dirty |-> IF t.isDirty THEN @.dirty + 1 ELSE @.dirty],
            !.last = Did("stop", k, t, at)]

TrackerStop ==
  /\ StopSaves(tracker) => Len(disk.writes) < MaxWrites
  /\ IF StopSaves(tracker)
       THEN /\ disk' = SaveStarts("stop", tracker)
            /\ tracker' = Stopped(tracker, Len(disk.writes) + 1, now)
       ELSE /\ disk' = disk
            /\ tracker' = Stopped(tracker, 0, now)
  /\ UNCHANGED <<authVars, callArgs, callDone, callResult, outVars, now, serverVars>>

\* shutdown of startHttpWebhookMonitor, monitor.ts:797-808: tokenTracker.stop(),
\* then server.close(), which closes the listening handle when there is one
Closed(server) ==
  [handle |-> FALSE, closes |-> IF server.handle THEN server.closes + 1 ELSE server.closes]

Shutdown ==
  /\ StopSaves(tracker) => Len(disk.writes) < MaxWrites
  /\ IF StopSaves(tracker)
       THEN /\ disk' = SaveStarts("stop", tracker)
            /\ tracker' = [Stopped(tracker, Len(disk.writes) + 1, now)
                             EXCEPT !.server = Closed(@)]
       ELSE /\ disk' = disk
            /\ tracker' = [Stopped(tracker, 0, now) EXCEPT !.server = Closed(@)]
  /\ UNCHANGED <<authVars, callArgs, callDone, callResult, outVars, now, serverVars>>

\* reset that empties all four periods whatever it is given
ResetDataAll(data, period, at) == EmptyData(at)

\* reset(period), part_002:247-264, up to the await in save()
ResetData(data, period, at) ==
  IF period = Undef THEN EmptyData(at)
  ELSE [name \in PeriodNames |-> IF name = period.s THEN createEmptyPeriod(at) ELSE data[name]]

TrackerReset(periods) ==
  /\ Cardinality({k \in DOMAIN disk.writes : disk.writes[k].by = "reset"}) < MaxSaves
  /\ \E period \in periods :
       /\ tracker' = [tracker EXCEPT !.data = ResetData(@, period, now),
                                     !.isDirty = TRUE,
                                     !.dirtied = TRUE,
                                     !.last = Did("reset", period, tracker, now)]
       /\ disk' = [disk EXCEPT !.writes = Append(@, NewWrite("reset", period,
                                                           ResetData(tracker.data, period, now)))]
  /\ UNCHANGED <<authVars, callArgs, callDone, callResult, outVars, now, serverVars>>

AutosaveEvents ==
  {UsageEvent(Str(<<"p">>), Str(<<"m">>), Num(1), Num(2), Num(4), Num(8), Undef)}

ResetPeriods == {Undef, Str("daily"), Str("weekly"), Str("monthly"), Str("allTime")}

ResetInstants == {0, 24}

\* A started tracker that is reset, one period or all, while events arrive,
\* time passes and the writes succeed or fail
NextReset ==
  \/ Advance(ResetInstants)
  \/ TrackerStart
  \/ EmitEvent(AutosaveEvents)
  \/ TrackerReset(ResetPeriods)
  \/ WriteSettles({FALSE, TRUE}, {FALSE})

SpecReset == InitTracker({30000}, {Absent}) /\ [][NextReset]_vars

\* A tracker with its timer running that is started, fed, and stopped or shut
\* down again and again while its writes succeed or fail
NextStop ==
  \/ TrackerStart
  \/ EmitEvent(AutosaveEvents)
  \/ AutosaveTick
  \/ TrackerStop
  \/ Shutdown
  \/ WriteSettles({FALSE, TRUE}, {FALSE})

SpecStop == InitTracker({30000}, {Absent}) /\ [][NextStop]_vars

\* A started tracker with its autosave timer running: events, ticks, and
\* writes that succeed or fail
InitAutosave == InitTracker({30000}, {Absent})

NextAutosave ==
  \/ TrackerStart
  \/ EmitEvent(AutosaveEvents)
  \/ AutosaveTick
  \/ WriteSettles({FALSE, TRUE}, {FALSE})

SpecAutosave == InitAutosave /\ [][NextAutosave]_vars

\* A snapshot left by an earlier run: one request counted at time 0
PriorSnapshot ==
  File("json", stringify(handleUsageEvent(EmptyData(0),
         UsageEvent(Str(<<"p">>), Str(<<"m">>), Num(1), Num(2), Num(4), Num(8), Undef), 0)))

Unreadable == File("unreadable", Undef)

NotJson == File("malformed", Undef)

JsonNull == File("json", Null)

JsonEmptyObject == File("json", JsonObject(EmptyMap))

\* A JSON text with the daily, weekly and monthly periods and no allTime
WithoutAllTime ==
  File("json", JsonObject([name \in Windowed |-> stringifyPeriod(createEmptyPeriod(0))]))

SnapshotFiles ==
  {Absent, Unreadable, NotJson, JsonNull, JsonEmptyObject, WithoutAllTime, PriorSnapshot}

LoadInstants == {0, 24}

\* A tracker built over any kind of snapshot file, loaded, started, fed and
\* saved by callers and by its timer while writes succeed or fail
NextLoad ==
  \/ Advance(LoadInstants)
  \/ TrackerLoad
  \/ LoadSettles
  \/ TrackerStart
  \/ EmitEvent(AutosaveEvents)
  \/ TrackerSave
  \/ AutosaveTick
  \/ WriteSettles({FALSE, TRUE}, {FALSE, TRUE})

SpecLoad == InitTracker({30000}, SnapshotFiles) /\ [][NextLoad]_vars

PersistInstants == {0, 24, 25, 168, 720}

PersistEvents ==
  {UsageEvent(Str(<<"p">>), Str(<<"m">>), Num(1), Num(2), Num(4), Num(8), Undef)}

\* A tracker that is loaded and saved while events arrive and time passes
InitPersist == InitTracker({30000}, {PriorSnapshot, Absent})

NextPersist ==
  \/ Advance(PersistInstants)
  \/ TrackerStart
  \/ EmitEvent(PersistEvents)
  \/ TrackerLoad
  \/ LoadSettles
  \/ TrackerSave
  \/ WriteSettles({TRUE}, {FALSE})

SpecPersist == InitPersist /\ [][NextPersist]_vars

\* The tracker's own object handed out
getDataLive(data) == Held(TRUE, data)

\* getData(), part_002:243-245: JSON.parse(JSON.stringify(this.data))
getData(data) == Held(FALSE, parse(stringify(data)))

TrackerGetData ==
  /\ tracker' = [tracker EXCEPT !.held = getData(tracker.data),
                                !.last = Did("getData", Undef, tracker, now)]
  /\ UNCHANGED <<authVars, callArgs, callDone, callResult, outVars, disk, now, serverVars>>

\* What a caller may do to the value it got
Scribbled(value) ==
  [value EXCEPT !.daily.providers = EmptyMap, !.allTime.lastUpdatedAt = 0 - 1]

\* The caller of getData() changes the value it holds
MutateReturned ==
  /\ tracker.held.value # Undef
  /\ tracker.held.value # Scribbled(tracker.held.value)
  /\ tracker' = [tracker EXCEPT !.held = [value |-> Scribbled(@.value), alias |-> @.alias,
                                          seen |-> Scribbled(@.value)],
                                !.data = IF tracker.held.alias
                                           THEN Scribbled(tracker.held.value) ELSE @,
                                !.last = Did("mutate", Undef, tracker, now)]
  /\ UNCHANGED <<authVars, callArgs, callDone, callResult, outVars, disk, now, serverVars>>

ReadInstants == {0, 24, 25}

\* A started tracker whose data are read by getData() between events
InitRead == InitTracker({30000}, {Absent})

NextRead ==
  \/ Advance(ReadInstants)
  \/ TrackerStart
  \/ EmitEvent(UsageEvents)
  \/ TrackerGetData
  \/ MutateReturned

SpecRead == InitRead /\ [][NextRead]_vars

\* A started tracker fed by the diagnostic stream while time passes
InitUsage == InitTracker({30000}, {Absent})

NextUsage ==
  \/ Advance(Instants)
  \/ TrackerStart
  \/ EmitEvent(UsageEvents)

SpecUsage == InitUsage /\ [][NextUsage]_vars

NestedInstants == {0, 23, 24, 167, 168, 719, 720}

\* A started tracker fed by the diagnostic stream at times on both sides of
\* the ends of the windows; nothing resets or loads it
NextNested ==
  \/ Advance(NestedInstants)
  \/ TrackerStart
  \/ EmitEvent(UsageEvents)

SpecNested == InitTracker({30000}, {Absent}) /\ [][NextNested]_vars

----------------------------------------------------------------------------
(* Account resolution and the status adapter: src/unnamed/part_001:25-51,  *)
(* index.ts:430-501                                                        *)

Bool(b) == [t |-> "bool", b |-> b]

\* channels["http-webhook"]: enabled, inbound and outbound, each optional
ChannelConfig(enabled, inbound, outbound) ==
  [enabled |-> enabled, outbound |-> outbound, inbound |-> inbound]

Inbound(inboundToken) == [t |-> "obj", token |-> inboundToken]

\* obj?.key
Optional(obj, key) == IF obj = Undef THEN Undef ELSE obj[key]

\* part_001:25-35
resolveCredentialSource(config) ==
  IF /\ Truthy(Optional(config.inbound, "token"))
     /\ Truthy(Optional(config.outbound, "token"))
     /\ Truthy(Optional(config.outbound, "url"))
    THEN "config" ELSE "none"

\* part_001:37-51
resolveHttpWebhookAccount(config) ==
  [enabled |-> config.enabled # Bool(FALSE), config |-> config, accountId |-> "default",
   credentialSource |-> resolveCredentialSource(config)]

Masked(v) == IF Truthy(v) THEN Str(<<"*", "*", "*">>) ELSE Undef

\* index.ts:482-501, the fields collectStatusIssues reads
buildAccountSnapshot(account) ==
  [enabled |-> account.enabled, outboundToken |-> Masked(Optional(account.config.outbound, "token")),
   configured |-> account.credentialSource # "none",
   inboundToken |-> Masked(Optional(account.config.inbound, "token")),
   accountId |-> account.accountId,
   outboundUrl |-> Optional(account.config.outbound, "url")]

Issue(accountId, message, fix) ==
  [kind |-> "config", message |-> message, accountId |-> accountId,
   fix |-> fix, channel |-> "http-webhook"]

IssueIf(missing, issue) == IF missing THEN <<issue>> ELSE <<>>

\* index.ts:430-465, for one entry of accounts
collectStatusIssues(entry) ==
  IF ~entry.enabled \/ ~entry.configured THEN <<>>
  ELSE IssueIf(~Truthy(entry.inboundToken),
               Issue(entry.accountId, "HTTP webhook inbound.token is missing.",
                     "Set channels.http-webhook.inbound.token."))
       \o IssueIf(~Truthy(entry.outboundUrl),
                  Issue(entry.accountId, "HTTP webhook outbound.url is missing.",
                        "Set channels.http-webhook.outbound.url."))
       \o IssueIf(~Truthy(entry.outboundToken),
                  Issue(entry.accountId, "HTTP webhook outbound.token is missing.",
                        "Set channels.http-webhook.outbound.token."))

CredentialValues == {Undef, Str(<<>>), Str(<<"x">>)}

ChannelConfigs ==
  {ChannelConfig(enabled, inbound, outbound) :
     enabled \in {Undef, Bool(FALSE), Bool(TRUE)},
     inbound \in {Undef} \cup {Inbound(v) : v \in CredentialValues},
     outbound \in {Undef} \cup {Outbound(u, v, Undef) : u, v \in CredentialValues}}

\* The status path on a drawn channel configuration
InitStatus ==
  /\ InitServer({Config(Undef, "undef", "undef", {})}, {{}})
  /\ vbToken = <<>> /\ vbHeader = Undef /\ vbResult = "none"
  /\ callArgs \in {<<config>> : config \in ChannelConfigs}
  /\ callDone = FALSE
  /\ callResult = <<>>
  /\ NoOutbound

CallStatus ==
  /\ ~callDone
  /\ callDone' = TRUE
  /\ callResult' = collectStatusIssues(buildAccountSnapshot(resolveHttpWebhookAccount(callArgs[1])))
  /\ UNCHANGED <<authVars, callArgs, outVars, trackVars, serverVars>>

NextStatus == CallStatus

SpecStatus == InitStatus /\ [][NextStatus]_vars

----------------------------------------------------------------------------
(* HttpWebhookDmSchema.safeParse, types.config.ts:22-38 *)

\* A dm value as written in the configuration: policy and enabled are "undef"
\* when omitted, allowFrom is undefined, an array (its set of entries) or
\* something else, and extra says whether a key outside the schema is present
Dm(enabled, policy, allowList, extra) ==
  [policy |-> policy, allowFrom |-> allowList, enabled |-> enabled, extra |-> extra]

AllowList(items) == [t |-> "arr", items |-> items]

\* The object schema before superRefine: strict keys, the enum, the array
WellTyped(dm) ==
  /\ ~dm.extra
  /\ dm.enabled \in {"undef", "true", "false"}
  /\ dm.policy \in {"undef", "pairing", "open", "allowlist"}
  /\ dm.allowFrom.t \in {"undef", "arr"}

\* .optional().default("pairing")
Defaulted(dm) ==
  [policy |-> IF dm.policy = "undef" THEN "pairing" ELSE dm.policy, allowFrom |-> dm.allowFrom,
   enabled |-> dm.enabled]

ItemsOf(allowList) == IF allowList.t = "arr" THEN allowList.items ELSE {}

safeParseDm(dm) ==
  IF ~WellTyped(dm) THEN [data |-> Undef, issue |-> "invalid", success |-> FALSE]
  ELSE IF ~DmConfigValid(Defaulted(dm).policy, ItemsOf(dm.allowFrom))
    THEN [data |-> Undef, issue |-> "custom", success |-> FALSE]
  ELSE [data |-> Defaulted(dm), issue |-> "none", success |-> TRUE]

DmValues ==
  {Dm(enabled, policy, allowList, extra) :
     enabled \in {"undef", "true", "false"},
     policy \in {"undef", "pairing", "open", "disabled", "allowlist"},
     allowList \in {Undef, Str(Star), AllowList({}), AllowList({Star}), AllowList({SenderA}),
                    AllowList({Star, SenderA})},
     extra \in BOOLEAN}

\* The dm schema on a drawn value
InitDm ==
  /\ InitServer({Config(Undef, "undef", "undef", {})}, {{}})
  /\ vbToken = <<>> /\ vbHeader = Undef /\ vbResult = "none"
  /\ callArgs \in {<<dm>> : dm \in DmValues}
  /\ callDone = FALSE
  /\ callResult = <<>>
  /\ NoOutbound

CallParseDm ==
  /\ ~callDone
  /\ callDone' = TRUE
  /\ callResult' = safeParseDm(callArgs[1])
  /\ UNCHANGED <<authVars, callArgs, outVars, trackVars, serverVars>>

NextDm == CallParseDm

SpecDm == InitDm /\ [][NextDm]_vars

----------------------------------------------------------------------------
(* Properties *)

Has(r, e) == \E i \in 1..Len(events[r]) : events[r][i] = e
Count(r, e) == Cardinality({i \in 1..Len(events[r]) : events[r][i] = e})

\* The header h is the scheme "Bearer" in any letter case, one space, and
\* exactly the characters of t
CarriesToken(h, t) ==
  /\ h.t = "str"
  /\ Len(h.s) = 7 + Len(t)
  /\ \A i \in 1..6 : LowerChar(h.s[i]) = LowerChar(Bearer[i])
  /\ h.s[7] = " "
  /\ \A i \in 1..Len(t) : h.s[7 + i] = t[i]

\* A request to the configured webhook path that is not the health check
ToWebhook(r) == phase[r] # "idle" /\ req[r].url = path /\ req[r].url # healthPath

\* C1: the pipeline is invoked only for a POST to the webhook path whose
\* x-ezail-authorization or Authorization header carries the configured token
\* as a bearer credential; a POST to the webhook path with no such header is
\* answered 401, and its body is neither read nor processed.
C1_AuthGate ==
  \A r \in Reqs :
    /\ pc[r] # "none" =>
         /\ ToWebhook(r)
         /\ req[r].method = "POST"
         /\ CarriesToken(req[r].ezail, token) \/ CarriesToken(req[r].authorization, token)
    /\ ( /\ ToWebhook(r)
         /\ req[r].method = "POST"
         /\ ~CarriesToken(req[r].ezail, token)
         /\ ~CarriesToken(req[r].authorization, token) ) =>
         /\ phase[r] = "closed"
         /\ res[r].statuses = <<401>>
         /\ body[r].total = 0 /\ body[r].chunks = 0 /\ ~body[r].resolved
         /\ pc[r] = "none" /\ events[r] = <<>> /\ outbox[r] = <<>>

\* A token of the right length and the wrong content was answered 401
C1_Witness ==
  \E r \in Reqs :
    /\ ToWebhook(r) /\ req[r].method = "POST"
    /\ req[r].ezail.t = "undef"
    /\ req[r].authorization = Str(BearerSp \o <<"x","z">>)
    /\ res[r].statuses = <<401>>

\* What follows "Bearer " in the header h
Presented(h) == SubSeq(h.s, 8, Len(h.s))

\* C2: for every configured token T and every provided token P,
\* validateBearerToken("Bearer " + P, T) returns true if and only if P and T
\* have the same bytes (the same length and the same content).
C2_BearerTokenIff ==
  (vbResult # "none" /\ vbHeader.t = "str" /\ startsWith(vbHeader.s, BearerSp)) =>
    (vbResult = "true" <=> Presented(vbHeader) = vbToken)

\* The pipeline was started for request r
Started(r) == pc[r] # "none"

\* C3: a request that passes validation is answered 200 exactly once, and the
\* answer is written strictly before processInboundMessage starts; whatever
\* the pipeline does afterwards (a throw, a drop, a delivery, a failed
\* delivery) leaves that single 200 as the whole response, and a failure of
\* the pipeline is caught and logged, never left as an unhandled rejection.
C3_AckBeforeProcess ==
  \A r \in Reqs :
    /\ Started(r) =>
         /\ res[r].statuses = <<200>>
         /\ phase[r] = "closed"
         /\ Len(events[r]) >= 2 /\ events[r][1] = "ack" /\ events[r][2] = "start"
         /\ Count(r, "ack") = 1 /\ Count(r, "start") = 1
    /\ (ToWebhook(r) /\ phase[r] = "closed" /\ res[r].statuses = <<200>>) => Started(r)
    /\ r \notin rejections
    /\ errorLog[r] = Count(r, "caught")
    /\ (pc[r] = "done" /\ (Has(r, "upsertFailed") \/ Has(r, "disabled"))) => errorLog[r] = 1

\* The pipeline threw after the acknowledgement: the error was logged and the
\* response is still the single 200
C3_Witness ==
  \E r \in Reqs :
    /\ pc[r] = "done" /\ Has(r, "caught") /\ errorLog[r] = 1
    /\ res[r].statuses = <<200>>

\* The first rule of the handler that matches request r, as a status; 0 when
\* the request goes on to the token and the body
FirstRule(r) ==
  IF req[r].url = healthPath THEN 200
  ELSE IF req[r].url # path THEN 404
  ELSE IF req[r].method # "POST" THEN 405
  ELSE 0

\* C4: every request is answered by the first matching rule: the health path
\* 200 whatever the method and the headers, another path than the webhook
\* path 404, a non-POST to the webhook path 405 with Allow: POST; only a POST
\* to the webhook path has its token and body examined and gets 401, 413, 400
\* or 200. A request gets exactly one status.
C4_FirstMatchingRule ==
  \A r \in Reqs : phase[r] # "idle" =>
    /\ Len(res[r].statuses) <= 1
    /\ phase[r] = "closed" => Len(res[r].statuses) = 1
    /\ res[r].allow <=> res[r].statuses = <<405>>
    /\ IF FirstRule(r) # 0
         THEN /\ phase[r] = "closed"
              /\ res[r].statuses = <<FirstRule(r)>>
              /\ body[r].total = 0 /\ ~body[r].resolved /\ ~Started(r)
         ELSE \A i \in 1..Len(res[r].statuses) : res[r].statuses[i] \in {200, 400, 401, 413}

\* A GET to the webhook path without any token is answered 405, not 401
C4_Witness ==
  \E r \in Reqs :
    /\ req[r] \in Requests
    /\ req[r].url = path /\ req[r].method = "GET"
    /\ req[r].ezail.t = "undef" /\ req[r].authorization.t = "undef"
    /\ res[r] = [statuses |-> <<405>>, allow |-> TRUE]

\* The body text is JSON for a message with a sender and a text
ValidMessage(raw) ==
  /\ raw.kind = "json"
  /\ raw.value.t = "obj"
  /\ Field(raw.value, "from").t = "str" /\ Field(raw.value, "from").s # <<>>
  /\ Field(raw.value, "text").t = "str" /\ trim(Field(raw.value, "text").s) # <<>>

\* C5: an authenticated POST whose body is exactly 1048576 bytes of valid JSON
\* is accepted, whatever the chunks; a body that grows past 1048576 bytes (by
\* one byte or more) is answered 413, whatever the chunks; past the cap no
\* byte is accumulated, no later data or end event is handled, and the read
\* resolves exactly once.
C5_BodyCap ==
  \A r \in Reqs :
    /\ body[r].kept <= MaxBodyBytes
    /\ body[r].resolves <= 1
    /\ body[r].resolved <=> body[r].resolves = 1
    /\ phase[r] \in {"resolved", "closed"} => body[r].resolved /\ ~body[r].listening
    /\ body[r].total > MaxBodyBytes =>
         /\ body[r].resolved /\ body[r].destroyed
         /\ body[r].result = Failed("payload too large")
         /\ body[r].raw.kind = "unread"
         /\ body[r].kept <= MaxBodyBytes /\ body[r].kept < body[r].total
         /\ phase[r] = "closed" => res[r].statuses = <<413>>
    /\ (phase[r] = "closed" /\ res[r].statuses = <<413>>) => body[r].total > MaxBodyBytes
    /\ ( /\ phase[r] = "closed"
         /\ body[r].total <= MaxBodyBytes
         /\ body[r].raw.kind # "unread" ) =>
         (IF ValidMessage(body[r].raw) THEN res[r].statuses = <<200>> /\ Started(r)
          ELSE res[r].statuses = <<400>>)

\* A body of exactly 1 MiB that came in two chunks was accepted
C5_Witness ==
  \E r \in Reqs :
    /\ body[r].total = MaxBodyBytes /\ body[r].chunks = 2
    /\ ValidMessage(body[r].raw)
    /\ res[r].statuses = <<200>>

\* The parsed value has no sender: not an object, or from absent, null or ""
LacksFrom(v) ==
  \/ v.t # "obj"
  \/ Field(v, "from").t \in {"undef", "null"}
  \/ Field(v, "from") = Str(<<>>)

\* The parsed value has neither a non-empty text string nor a non-empty
\* messages array
LacksContent(v) ==
  /\ ~(Field(v, "text").t = "str" /\ Field(v, "text").s # <<>>)
  /\ ~(Field(v, "messages").t = "arr" /\ Field(v, "messages").a # <<>>)

\* C6: an authenticated POST whose body was received within the cap is
\* answered 400 and never handed to the pipeline when the body is empty or
\* whitespace, is not JSON, parses to a value without a non-empty from, or has
\* neither a non-empty text string nor a non-empty messages array.
C6_MalformedBody ==
  \A r \in Reqs :
    ( /\ phase[r] = "closed"
      /\ body[r].raw.kind # "unread"
      /\ \/ body[r].raw.kind \in {"empty", "blank", "garbage"}
         \/ body[r].raw.kind = "json" /\ LacksFrom(body[r].raw.value)
         \/ body[r].raw.kind = "json" /\ body[r].raw.value.t = "obj"
              /\ LacksContent(body[r].raw.value) ) =>
      /\ res[r].statuses = <<400>>
      /\ ~Started(r) /\ events[r] = <<>> /\ outbox[r] = <<>>

\* A message with a sender, no text and an empty messages array was answered 400
C6_Witness ==
  \E r \in Reqs :
    /\ phase[r] = "closed"
    /\ body[r].raw = Json(Obj(Str(SenderA), Undef, Arr(<<>>), Undef))
    /\ res[r].statuses = <<400>>

\* C7: every message that reaches processing has a sender id that is a string,
\* non-empty after trimming, and a text or messages content that is non-empty
\* after normalization; a request with neither is rejected before processing
\* rather than acknowledged.
C7_ValidatedBeforeAck ==
  \A r \in Reqs : Started(r) =>
    /\ Field(body[r].result.value, "from").t = "str"
    /\ trim(Field(body[r].result.value, "from").s) # <<>>
    /\ loc[r].text # <<>>
    /\ ~Has(r, "skip")

\* The DM policy check of request r has been made
Decided(r) == Started(r) /\ pc[r] # "policy"

\* The message of request r went past the policy check into processing
Processed(r) == pc[r] \in {"media", "dispatching"} \/ Has(r, "dispatch")

\* DMs are disabled, by the policy or by dm.enabled
Disabled == dmPolicy = "disabled" \/ cfg.dmEnabled = "false"

\* The trimmed sender id of request r, or the wildcard, is in the union of the
\* static allowFrom list and the allow-list store as request r read it (a
\* store that cannot be read reads as empty)
InUnion(r) ==
  \E e \in cfg.allowFrom \cup loc[r].storeAllowFrom : e = Star \/ e = loc[r].from

\* Nothing of the pairing branch, the media fetch, the dispatch or the outbound
\* path happened for request r
NoEffects(r) ==
  /\ outbox[r] = <<>>
  /\ \A e \in {"created", "fetched", "pairingReply", "upsertFailed", "pairingReplyThrew",
               "mediaFetch", "dispatch", "deliver"} : ~Has(r, e)

PairingReplies(r) == {i \in 1..Len(outbox[r]) : outbox[r][i].kind = "pairing"}

\* The requests whose pairing reply went to sender s
RepliedTo(s) == {r \in Reqs : \E i \in PairingReplies(r) : outbox[r][i].to = s}

C10_DisabledBeforeAllowList ==
  \A r \in Reqs : (Started(r) /\ Disabled) =>
    /\ ~Has(r, "storeRead")
    /\ NoEffects(r)

\* Request r was dropped by the DM policy: blocked under allowlist, or disabled
PolicyDrop(r) == Has(r, "blocked") \/ Has(r, "disabled")

\* C11: a policy drop (an unauthorized sender under allowlist, or a disabled
\* DM policy) sends nothing to the sender and ends the pipeline run normally:
\* the invocation does not fail and nothing is reported on the error log.
C11_PolicyDropSilent ==
  \A r \in Reqs : PolicyDrop(r) =>
    /\ outbox[r] = <<>>
    /\ pc[r] = "done"
    /\ errorLog[r] = 0 /\ ~Has(r, "caught")
    /\ r \notin rejections

\* The message of request r has a sender id, non-empty after trimming, that the
\* DM policy clears, and a non-empty canonical text
Cleared(r) ==
  /\ Decided(r)
  /\ Field(body[r].result.value, "from").t = "str"
  /\ trim(Field(body[r].result.value, "from").s) # <<>>
  /\ loc[r].text # <<>>
  /\ ~Disabled
  /\ dmPolicy = "open" \/ InUnion(r)

\* C12: an acknowledged message whose sender the policy clears and whose
\* canonical text is non-empty gives exactly one call of the backend reply
\* dispatcher, with the canonical text as RawBody and the trimmed sender id
\* as SenderId; a rejected or dropped message gives none.
C12_DispatchedOnce ==
  \A r \in Reqs :
    /\ Len(loc[r].dispatched) <= 1
    /\ Len(loc[r].dispatched) = Count(r, "dispatch")
    /\ (Cleared(r) /\ pc[r] \in {"rejected", "done", "dispatching"}) =>
         Len(loc[r].dispatched) = 1
    /\ ~Cleared(r) => loc[r].dispatched = <<>>
    /\ \A i \in 1..Len(loc[r].dispatched) :
         /\ loc[r].dispatched[i].SenderId = trim(Field(body[r].result.value, "from").s)
         /\ loc[r].dispatched[i].RawBody = loc[r].text
         /\ Truthy(Field(body[r].result.value, "messages"))
              \/ loc[r].dispatched[i].RawBody = trim(Field(body[r].result.value, "text").s)

\* {from: " b", text: "hi"} against the open policy: one call with "hi" and "b"
C12_Witness ==
  \E r \in Reqs :
    /\ pc[r] = "done"
    /\ Field(body[r].result.value, "from") = Str(<<" ">> \o SenderB)
    /\ Field(body[r].result.value, "messages") = Undef
    /\ Len(loc[r].dispatched) = 1
    /\ loc[r].dispatched[1].RawBody = Hi /\ loc[r].dispatched[1].SenderId = SenderB

Reverse(q) == [i \in 1..Len(q) |-> q[Len(q) + 1 - i]]

IsSystem(m) == m.role = "system"
IsTextPart(part) == part.type = "text"
IsMediaPart(part) == part.type \in {"image", "file"}

\* The text entries a message that is not a system entry contributes, in order
TextEntries(m) ==
  CASE m.role = "user" /\ m.content.t = "str" -> <<m.content.s>>
    [] m.role = "user" /\ m.content.t = "arr" ->
         LET texts == SelectSeq(m.content.a, IsTextPart)
         IN [i \in 1..Len(texts) |-> texts[i].text]
    [] m.role = "assistant" -> <<AssistantOpen \o TemplateString(m.content) \o Close>>
    [] OTHER -> <<>>

\* The media a message contributes, in order
MediaEntries(m) ==
  IF m.role = "user" /\ m.content.t = "arr"
    THEN LET parts == SelectSeq(m.content.a, IsMediaPart)
         IN [i \in 1..Len(parts) |->
               extractMediaFromPart(IF parts[i].type = "image" THEN parts[i].image
                                    ELSE parts[i].data, parts[i].mediaType)]
    ELSE <<>>

\* The system annotations, the last system entry first
SystemEntries(messages) ==
  LET systems == Reverse(SelectSeq(messages, IsSystem))
  IN [i \in 1..Len(systems) |-> SystemOpen \o TemplateString(systems[i].content) \o Close]

\* C13: the text of convertMessagesToTextAndMedia is, joined by newlines and
\* trimmed: every system entry as a bracketed annotation, the one processed
\* last first, ahead of all other text; then, in input order, the user
\* strings and user text parts and the assistant entries in bracketed form;
\* tool entries contribute nothing; the media keep their input order.
C13_ConvertedText ==
  callDone =>
    LET messages == callArgs[1]
        others == Concat([i \in 1..Len(messages) |->
                            IF IsSystem(messages[i]) THEN <<>> ELSE TextEntries(messages[i])])
    IN /\ callResult.text = trim(join(SystemEntries(messages) \o others, Newline))
       /\ callResult.media = Concat([i \in 1..Len(messages) |-> MediaEntries(messages[i])])

\* Two system entries around a user string: the later system entry comes first
C13_Witness ==
  /\ callDone
  /\ callArgs = <<(<<MsgSystem, MsgUser, MsgSystemT>>)>>
  /\ callResult.text = SystemOpen \o <<"t">> \o Close \o Newline
                         \o SystemOpen \o <<"s">> \o Close \o Newline \o <<"u">>

\* What a data URL declares, read off the string itself: the media type is
\* the run after "data:" up to the first ";" or ",", the payload is what
\* follows the first ","
HasComma(s) == \E i \in 1..Len(s) : s[i] = ","
FirstComma(s) == CHOOSE i \in 1..Len(s) : s[i] = "," /\ \A j \in 1..(i - 1) : s[j] # ","
DeclaredPayload(s) == SubSeq(s, FirstComma(s) + 1, Len(s))
FirstStop(s) == CHOOSE i \in 1..Len(s) : s[i] \in {",", ";"} /\ \A j \in 1..(i - 1) : s[j] \notin {",", ";"}
DeclaredType(s) == SubSeq(s, Len(DataPrefix) + 1, FirstStop(s) - 1)

\* The bytes a base64 text stands for
Base64Index(c) == (CHOOSE i \in 1..64 : Base64Alphabet[i] = c) - 1
RECURSIVE Base64Bytes(_)
Base64Bytes(s) ==
  IF Len(s) < 4 THEN <<>>
  ELSE LET n == Base64Index(s[1]) * 262144 + Base64Index(s[2]) * 4096
                + (IF s[3] = "=" THEN 0 ELSE Base64Index(s[3]) * 64)
                + (IF s[4] = "=" THEN 0 ELSE Base64Index(s[4]))
       IN (IF s[3] = "=" THEN <<n \div 65536>>
           ELSE IF s[4] = "=" THEN <<n \div 65536, (n \div 256) % 256>>
           ELSE <<n \div 65536, (n \div 256) % 256, n % 256>>)
          \o Base64Bytes(SubSeq(s, 5, Len(s)))

IsHttpString(d) == d.t = "str" /\ (startsWith(d.s, HttpPrefix) \/ startsWith(d.s, HttpsPrefix))
IsDataString(d) == d.t = "str" /\ ~IsHttpString(d) /\ startsWith(d.s, DataPrefix)
IsBuffer(d) == d.t \in {"Uint8Array", "ArrayBuffer"}

NotConfigured(outbound, name) ==
  \/ outbound.t = "undef"
  \/ outbound[name].t = "undef"
  \/ outbound[name] = Str(<<>>)

\* C15: a call of sendHttpWebhookMessage whose account has no outbound URL or
\* no outbound token has returned a failure naming the missing setting, has
\* attempted no request and has created no timer.
C15_PreconditionsFirst ==
  \A k \in DOMAIN sends :
    NotConfigured(sends[k].outbound, "url") \/ NotConfigured(sends[k].outbound, "token") =>
      /\ sends[k].pc = "returned"
      /\ ~sends[k].result.ok
      /\ sends[k].result.error =
           IF NotConfigured(sends[k].outbound, "url")
             THEN "outbound.url not configured" ELSE "outbound.token not configured"
      /\ sends[k].request = "none"
      /\ sends[k].timer = "none"

C15_Witness ==
  \E k \in DOMAIN sends :
    /\ sends[k].outbound.t = "obj"
    /\ sends[k].outbound.url = Str(OutboundUrl)
    /\ sends[k].outbound.token = Str(<<>>)
    /\ sends[k].result.error = "outbound.token not configured"

Returned(k) == sends[k].pc = "returned"
TimedOut(k) == sends[k].timer = "fired"
NetworkError(k) == sends[k].request = "done" /\ sends[k].thrown # Undef
GotStatus(k) == sends[k].response # Undef

\* C16: a call that passed the preconditions ends in a result: the timeout
\* error when the timer expired and aborted the request, the error's message
\* for another network error, the status for a non-2xx response, ok with the
\* parsed messageId for a 2xx response and a bare ok when its body could not
\* be parsed; no returned call has its timer still pending.
C16_AlwaysResult ==
  \A k \in DOMAIN sends :
    /\ ~Returned(k) => sends[k].result = NoResult
    /\ Returned(k) =>
         /\ sends[k].timer # "pending"
         /\ TimedOut(k) => sends[k].result = Failure("request timeout", 0)
         /\ NetworkError(k) => sends[k].result = Failure(sends[k].thrown.message, 0)
         /\ GotStatus(k) /\ sends[k].response.status \notin 200..299 =>
              sends[k].result = Failure("HTTP", sends[k].response.status)
         /\ GotStatus(k) /\ sends[k].response.status \in 200..299 =>
              /\ sends[k].result.ok
              /\ sends[k].result.messageId =
                   IF sends[k].parsed.t = "obj" THEN sends[k].parsed.messageId ELSE Undef

C16_Witness ==
  \E k \in DOMAIN sends :
    /\ Returned(k)
    /\ TimedOut(k)
    /\ sends[k].request = "aborted"
    /\ sends[k].result.error = "request timeout"

SendsOf(r, i) == {k \in DOMAIN sends : sends[k].by = [fn |-> "deliver", item |-> i, id |-> r]}
Finished(r) == replies[r].pc = "done"
HasText(r) == replies[r].payload.text.t = "str" /\ replies[r].payload.text.s # <<>>
IsReference(r, i) == replies[r].list[i].t = "str" /\ replies[r].list[i].s # <<>>

\* C17: when a delivery with media references has finished, every reference
\* whose read or download succeeded was handed over in one call of its own
\* carrying the file, every reference whose read or download failed was
\* replaced by one text-only call when the reply has text and by no call when
\* it has none, and this holds for the references after a failed one too.
C17_MediaFanOut ==
  \A r \in DOMAIN replies :
    Finished(r) /\ replies[r].list # <<>> =>
      \A i \in DOMAIN replies[r].list :
        IsReference(r, i) =>
          /\ i \notin replies[r].failed =>
               /\ Cardinality(SendsOf(r, i)) = 1
               /\ \A k \in SendsOf(r, i) :
                    sends[k].message.files = <<FileOf(replies[r].list[i].s)>>
          /\ i \in replies[r].failed /\ HasText(r) =>
               /\ Cardinality(SendsOf(r, i)) = 1
               /\ \A k \in SendsOf(r, i) :
                    /\ sends[k].message.files = <<>>
                    /\ sends[k].message.text = replies[r].payload.text.s
          /\ i \in replies[r].failed /\ ~HasText(r) => SendsOf(r, i) = {}

C17_Witness ==
  \E r \in DOMAIN replies :
    /\ Finished(r)
    /\ Len(replies[r].list) = 2
    /\ replies[r].failed = {1}
    /\ HasText(r)
    /\ \E k \in SendsOf(r, 1) : sends[k].message.files = <<>>
    /\ \E k \in SendsOf(r, 2) : sends[k].message.files # <<>>

TextOnly(r) == replies[r].list = <<>> /\ HasText(r)
ErrorLogged(r, i) ==
  \E n \in DOMAIN replies[r].log :
    replies[r].log[n].level = "error" /\ replies[r].log[n].item = i

\* C18: when a text-only delivery has finished, every chunk was handed over
\* in one call of its own with the chunk as its text, and every chunk whose
\* call came back as a failure has an error report.
C18_ChunksLoggedAndSkipped ==
  \A r \in DOMAIN replies :
    Finished(r) /\ TextOnly(r) =>
      \A j \in DOMAIN replies[r].chunks :
        /\ Cardinality(SendsOf(r, j)) = 1
        /\ \A k \in SendsOf(r, j) :
             /\ sends[k].message.text = replies[r].chunks[j]
             /\ ~sends[k].result.ok => ErrorLogged(r, j)

SameReply(k, l) ==
  /\ sends[k].by.fn = "deliver"
  /\ sends[l].by.fn = "deliver"
  /\ sends[k].by.id = sends[l].by.id

\* C19: of two calls made for the same reply the earlier one had returned
\* before the later one was made and belongs to an earlier item or chunk, so
\* a reply never has two calls in flight.
C19_SequentialWithinReply ==
  \A k, l \in DOMAIN sends :
    k < l /\ SameReply(k, l) =>
      /\ sends[k].pc = "returned"
      /\ sends[k].by.item < sends[l].by.item

\* Calls of two different replies in flight together, one of them the
\* second call of its reply
C19_Witness ==
  \E k, l, m \in DOMAIN sends :
    /\ k < l
    /\ SameReply(k, l)
    /\ ~SameReply(l, m)
    /\ sends[l].pc = "fetching"
    /\ sends[m].pc = "fetching"

\* C20: every message handed to sendHttpWebhookMessage has a text that is
\* not empty or at least one file.
C20_TextOrFile ==
  \A k \in DOMAIN sends :
    sends[k].message.text # <<>> \/ sends[k].message.files # <<>>

\* C21: no message a delivery hands to sendHttpWebhookMessage carries a text
\* longer than the account's textChunkLimit, be it a text chunk, a message
\* with a file or a text-only fallback.
C21_TextWithinChunkLimit ==
  \A k \in DOMAIN sends :
    sends[k].by.fn = "deliver" =>
      Len(sends[k].message.text) <= replies[sends[k].by.id].chunkLimit

Window(name) ==
  IF name = "daily" THEN DayHours ELSE IF name = "weekly" THEN WeekHours
  ELSE IF name = "monthly" THEN MonthHours ELSE 0

Expired(name, period, at) == name # "allTime" /\ at - period.startedAt >= Window(name)

\* The period an event starts from: emptied at the time of the event when
\* expired, as it was otherwise
Base(name, period, at) ==
  IF Expired(name, period, at)
    THEN [startedAt |-> at, providers |-> EmptyMap, lastUpdatedAt |-> at]
    ELSE period

Given(v) == IF v = Undef THEN 0 ELSE v.n

NameOf(v) == IF v = Undef THEN Unknown ELSE v.s

Entry(period, provider, model) ==
  IF provider \in DOMAIN period.providers /\ model \in DOMAIN period.providers[provider]
    THEN period.providers[provider][model]
    ELSE ZeroUsage

Entries(period) ==
  {<<q, m>> : q \in DOMAIN period.providers, m \in {<<"n">>, <<"m">>, Unknown}}

SumOf(usage) ==
  Given(usage.input) + Given(usage.output) + Given(usage.cacheRead) + Given(usage.cacheWrite)

\* C22: a usage event empties exactly the expired ones of daily, weekly and
\* monthly, then adds its input, output, cacheRead, cacheWrite and total
\* (the sum of the four when no total is given) and one request to the entry
\* of its provider and model in all four periods, leaving every other entry
\* as it was.
C22_UsageEventUpdatesAllPeriods ==
  tracker.last.op = "usage" =>
    \A name \in PeriodNames :
      LET event == tracker.last.arg
          from == Base(name, tracker.last.before[name], tracker.last.at)
          old == Entry(from, NameOf(event.provider), NameOf(event.model))
          new == Entry(tracker.data[name], NameOf(event.provider), NameOf(event.model))
      IN /\ tracker.data[name].startedAt = from.startedAt
         /\ new.input = old.input + Given(event.usage.input)
         /\ new.output = old.output + Given(event.usage.output)
         /\ new.cacheRead = old.cacheRead + Given(event.usage.cacheRead)
         /\ new.cacheWrite = old.cacheWrite + Given(event.usage.cacheWrite)
         /\ new.total = old.total + (IF event.usage.total = Undef THEN SumOf(event.usage)
                                     ELSE event.usage.total.n)
         /\ new.requestCount = old.requestCount + 1
         /\ \A e \in Entries(tracker.data[name]) \cup Entries(from) :
              e # <<NameOf(event.provider), NameOf(event.model)>> =>
                Entry(tracker.data[name], e[1], e[2]) = Entry(from, e[1], e[2])

\* An event without a total lands on a tracker whose daily period has expired
\* and whose weekly period has not, and finds an entry to add to
C22_Witness ==
  /\ tracker.last.op = "usage"
  /\ tracker.last.arg.usage.total = Undef
  /\ Expired("daily", tracker.last.before.daily, tracker.last.at)
  /\ ~Expired("weekly", tracker.last.before.weekly, tracker.last.at)
  /\ tracker.last.before.weekly.providers # EmptyMap
  /\ tracker.data.weekly.providers[<<"p">>][<<"m">>].requestCount = 2
  /\ tracker.data.daily.providers[<<"p">>][<<"m">>].requestCount = 1


\* A period is due at a reset check: its age has reached its window (or, read
\* strictly, has passed it)
Due(name, startedAt, at, strictly) ==
  /\ name \in Windowed
  /\ IF strictly THEN at - startedAt > Window(name) ELSE at - startedAt >= Window(name)

FileStartedAt(file, name) == file.content.members[name].members.startedAt.n

FileProviders(file, name) == DOMAIN file.content.members[name].members.providers.members

LoadedSnapshot == tracker.last.op = "load" /\ tracker.last.arg.kind = "json"

\* The usage event found the period due and emptied it before counting, or
\* did not and counted on top of what was there
ResetAtEvent(name, strictly) ==
  LET event == tracker.last.arg
      before == tracker.last.before[name]
      after == tracker.data[name]
      provider == NameOf(event.provider)
      model == NameOf(event.model)
  IN IF Due(name, before.startedAt, tracker.last.at, strictly)
       THEN /\ after.startedAt = tracker.last.at
            /\ DOMAIN after.providers = {provider}
            /\ DOMAIN after.providers[provider] = {model}
            /\ after.providers[provider][model].requestCount = 1
       ELSE /\ after.startedAt = before.startedAt
            /\ DOMAIN before.providers \subseteq DOMAIN after.providers
            /\ Entry(after, provider, model).requestCount
                 = Entry(before, provider, model).requestCount + 1

\* load() found the period of the snapshot due and emptied it, or did not and
\* took it over
ResetAtLoad(name, strictly) ==
  LET after == tracker.data[name]
  IN IF Due(name, FileStartedAt(tracker.last.arg, name), tracker.last.at, strictly)
       THEN after = [startedAt |-> tracker.last.at, providers |-> EmptyMap,
                     lastUpdatedAt |-> tracker.last.at]
       ELSE /\ after.startedAt = FileStartedAt(tracker.last.arg, name)
            /\ DOMAIN after.providers = FileProviders(tracker.last.arg, name)

ResetRule(strictly) ==
  /\ tracker.last.op = "usage" => \A name \in PeriodNames : ResetAtEvent(name, strictly)
  /\ LoadedSnapshot =>
       /\ \A name \in PeriodNames : ResetAtLoad(name, strictly)
       /\ \A name \in Windowed : tracker.last.at - tracker.data[name].startedAt <= Window(name)

\* C23 as stated: at a usage event and at load() a daily, weekly or monthly
\* period is reset if and only if its age exceeds its window, allTime never,
\* and right after load() no period is older than its window.
C23_ResetIffAgeExceedsWindow == ResetRule(TRUE)

\* C23: at a usage event and at load() a daily, weekly or monthly period is
\* reset if and only if its age has reached its window (24, 168, 720 hours:
\* an age equal to the window resets too), allTime never, and right after
\* load() every such period is younger than its window.
C23_ResetIffAgeReachesWindow ==
  /\ ResetRule(FALSE)
  /\ LoadedSnapshot => \A name \in Windowed : tracker.last.at - tracker.data[name].startedAt < Window(name)

\* load() at hour 24 of a snapshot begun at hour 0: the daily period, exactly
\* one window old, is emptied while the weekly period is taken over
C23_Witness ==
  /\ LoadedSnapshot
  /\ tracker.last.at - FileStartedAt(tracker.last.arg, "daily") = DayHours
  /\ tracker.data.daily.providers = EmptyMap
  /\ tracker.data.daily.startedAt = tracker.last.at
  /\ tracker.data.weekly.providers # EmptyMap


\* The writes of save() whose text is what load() has just read
WrittenBy(file) ==
  {k \in DOMAIN disk.writes :
     disk.writes[k].state = "resolved" /\ disk.writes[k].content = file.content}

NoWindowCrossed(data, at) ==
  \A name \in Windowed : at - data[name].startedAt < Window(name)

\* C24: a snapshot written by save() and read back by load(), none of its
\* daily, weekly and monthly periods having reached its window by then, gives
\* the tracker the counters and timestamps of all four periods that it had
\* when save() was called.
C24_SaveLoadRoundTrip ==
  LoadedSnapshot =>
    \A k \in WrittenBy(tracker.last.arg) :
      NoWindowCrossed(disk.writes[k].data, tracker.last.at) =>
        \A name \in PeriodNames : tracker.data[name] = disk.writes[k].data[name]

\* A tracker with counted requests is saved, counts another request, and is
\* then loaded back to what was saved
C24_Witness ==
  /\ LoadedSnapshot
  /\ \E k \in WrittenBy(tracker.last.arg) :
       /\ NoWindowCrossed(disk.writes[k].data, tracker.last.at)
       /\ disk.writes[k].data.daily.providers # EmptyMap
       /\ tracker.last.before # disk.writes[k].data
       /\ tracker.data.daily = disk.writes[k].data.daily


\* C25: getData() leaves the data, the dirty flag and the timer as they were
\* and hands out a copy: changing the returned value leaves the tracker's
\* data as they were, and the returned value changes only by what its holder
\* does to it, never by a later usage event.
C25_GetDataIndependentCopy ==
  /\ tracker.last.op = "getData" =>
       /\ tracker.data = tracker.last.before
       /\ tracker.isDirty = tracker.last.wasDirty
       /\ tracker.autosaveTimer = tracker.last.hadTimer
       /\ tracker.held.value = tracker.data
  /\ tracker.last.op = "mutate" => tracker.data = tracker.last.before
  /\ tracker.held.value = tracker.held.seen

\* A value with counted requests was returned and scribbled on, and a usage
\* event was handled after that
C25_Witness ==
  /\ tracker.last.op = "usage"
  /\ tracker.held.value # Undef
  /\ tracker.held.value.daily.providers = EmptyMap
  /\ tracker.held.value.allTime.providers # EmptyMap
  /\ tracker.held.value.allTime.lastUpdatedAt = 0 - 1
  /\ tracker.last.before.allTime.providers # EmptyMap


\* A tick writes exactly when it finds the flag set; every handled usage
\* event sets the flag; only a write that succeeded clears it
DirtyFlagRule ==
  /\ tracker.tick.n >= 1 => (tracker.tick.write # 0 <=> tracker.tick.wasDirty)
  /\ tracker.last.op = "usage" => tracker.isDirty
  /\ tracker.last.wasDirty /\ ~tracker.isDirty => tracker.last.op = "written"

LoggedLines(line) == Cardinality({i \in DOMAIN tracker.log : tracker.log[i] = line})

WritesBy(by, states) ==
  {k \in DOMAIN disk.writes : disk.writes[k].by = by /\ disk.writes[k].state \in states}

\* C27: from stop() until the tracker is started again the autosave timer does
\* not fire and no usage event is counted; the call starts one final save
\* when it finds the flag set and none otherwise; and a final save that fails
\* is logged as such, once, the call having returned before.
C27_StopQuiesces ==
  /\ tracker.stopped => tracker.last.op \notin {"usage", "tick"}
  /\ tracker.stop.n >= 1 => ~tracker.autosaveTimer
  /\ tracker.stopped => ~tracker.unsubscribe
  /\ tracker.stop.n >= 1 => (tracker.stop.write # 0 <=> tracker.stop.wasDirty)
  /\ tracker.stop.write # 0 => disk.writes[tracker.stop.write].by = "stop"
  /\ Cardinality(WritesBy("stop", {"pending", "resolved", "rejected"})) = tracker.stop.dirty
  /\ LoggedLines("Final save failed") = Cardinality(WritesBy("stop", {"rejected"}))

\* A dirty tracker was stopped, its final save failed, and an event came after
\* the stop
C27_Witness ==
  /\ tracker.stopped
  /\ tracker.stop.n = 1
  /\ tracker.stop.wasDirty
  /\ tracker.stop.hadTimer
  /\ disk.writes[tracker.stop.write].state = "rejected"
  /\ tracker.last.op = "ignored"
  /\ tracker.last.arg.type = "model.usage"

\* C28: however often and whenever stop() or the listener's shutdown is
\* called, at most one final save is started and the listening socket is
\* closed at most once.
C28_StopIdempotent ==
  /\ Cardinality(WritesBy("stop", {"pending", "resolved", "rejected"})) <= 1
  /\ tracker.server.closes <= 1


Named(period, name) == period = Undef \/ period.s = name

\* C29: reset(period) puts an empty period started now in place of the named
\* period and leaves the other three as they were, reset() does so for all
\* four, and when the promise of either resolves the snapshot file holds the
\* data as the reset left them.
C29_ResetReplacesAndPersists ==
  /\ tracker.last.op = "reset" =>
       /\ \A name \in PeriodNames :
            tracker.data[name] =
              IF Named(tracker.last.arg, name)
                THEN [startedAt |-> tracker.last.at, providers |-> EmptyMap,
                      lastUpdatedAt |-> tracker.last.at]
                ELSE tracker.last.before[name]
       /\ \E k \in DOMAIN disk.writes :
            /\ disk.writes[k].by = "reset"
            /\ disk.writes[k].state = "pending"
            /\ disk.writes[k].data = tracker.data
  /\ tracker.last.op = "written" /\ disk.writes[tracker.last.arg].by = "reset" =>
       /\ disk.file.kind = "json"
       /\ \A name \in PeriodNames :
            /\ name \in DOMAIN disk.file.content.members
            /\ disk.file.content.members[name].members.startedAt.n
                 = disk.writes[tracker.last.arg].data[name].startedAt
            /\ Named(disk.writes[tracker.last.arg].arg, name) =>
                 DOMAIN disk.file.content.members[name].members.providers.members = {}
            /\ DOMAIN disk.file.content.members[name].members.providers.members
                 = DOMAIN disk.writes[tracker.last.arg].data[name].providers

\* reset("daily") of a tracker with counted requests has resolved: the file
\* holds an empty daily period begun at the reset and the weekly counts
C29_Witness ==
  /\ tracker.last.op = "written"
  /\ disk.writes[tracker.last.arg].by = "reset"
  /\ disk.writes[tracker.last.arg].arg = Str("daily")
  /\ DOMAIN disk.file.content.members["daily"].members.providers.members = {}
  /\ DOMAIN disk.file.content.members["weekly"].members.providers.members # {}
  /\ disk.file.content.members["daily"].members.startedAt.n = 24


\* A snapshot file that load() can take over: a JSON object with all four
\* periods
WellFormed(file) ==
  /\ file.kind = "json"
  /\ file.content.t = "obj"
  /\ DOMAIN file.content.members = PeriodNames

\* C30: load() of a file that is missing, unreadable or no well-formed
\* snapshot leaves the data as the constructor made them, all four periods in
\* place; a failed write leaves the dirty flag as it was, rejects the promise
\* of save() and is logged; and after a failed autosave the timer is still
\* armed.
C30_FailuresContained ==
  /\ tracker.last.op = "load" /\ ~WellFormed(tracker.last.arg) =>
       /\ tracker.data = tracker.last.before
       /\ \A name \in PeriodNames : tracker.data[name] # Undef
  /\ tracker.last.op = "unwritten" =>
       /\ tracker.isDirty = tracker.last.wasDirty
       /\ disk.writes[tracker.last.arg].state = "rejected"
       /\ LoggedLines("Failed to save") >= 1
       /\ disk.writes[tracker.last.arg].by = "tick" =>
            tracker.autosaveTimer /\ LoggedLines("Autosave failed") >= 1


MissingItems(config) ==
  {item \in {"inbound.token", "outbound.url", "outbound.token"} :
     \/ item = "inbound.token"
        /\ (config.inbound = Undef \/ config.inbound.token \in {Undef, Str(<<>>)})
     \/ item = "outbound.url"
        /\ (config.outbound = Undef \/ config.outbound.url \in {Undef, Str(<<>>)})
     \/ item = "outbound.token"
        /\ (config.outbound = Undef \/ config.outbound.token \in {Undef, Str(<<>>)})}

Hint(item) ==
  IF item = "inbound.token" THEN "Set channels.http-webhook.inbound.token."
  ELSE IF item = "outbound.url" THEN "Set channels.http-webhook.outbound.url."
  ELSE "Set channels.http-webhook.outbound.token."

\* C31: for an account that is not disabled, the status path reports one
\* issue of kind config, with its fix hint, for each of inbound.token,
\* outbound.url and outbound.token that the configuration lacks.
C31_IssuePerMissingItem ==
  callDone /\ Len(callArgs) = 1 /\ callArgs[1].enabled # Bool(FALSE) =>
    \A item \in MissingItems(callArgs[1]) :
      \E i \in DOMAIN callResult :
        callResult[i].kind = "config" /\ callResult[i].fix = Hint(item)


OpenWithoutWildcard(dm) ==
  dm.policy = "open" /\ (dm.allowFrom = Undef \/ Star \notin dm.allowFrom.items)

\* C32: a dm value of the right types fails validation if and only if its
\* policy is open and its allowFrom holds no "*"; a value that passes keeps
\* the policy it names, and pairing when it names none.
C32_OpenRequiresWildcard ==
  callDone /\ WellTyped(callArgs[1]) =>
    /\ ~callResult.success <=> OpenWithoutWildcard(callArgs[1])
    /\ ~callResult.success => callResult.data = Undef
    /\ callResult.success =>
         callResult.data.policy =
           IF callArgs[1].policy = "undef" THEN "pairing" ELSE callArgs[1].policy

\* policy open with allowFrom ["a"] has failed validation
C32_Witness ==
  /\ callDone
  /\ callArgs[1] = Dm("undef", "open", AllowList({SenderA}), FALSE)
  /\ ~callResult.success
  /\ callResult.issue = "custom"

\* The message of request r has a string for its sender, and that sender after
\* trimming, or the canonical text, is empty
EmptyAfterTrim(r) ==
  LET message == body[r].result.value
  IN /\ Field(message, "from").t = "str"
     /\ \/ trim(Field(message, "from").s) = <<>>
        \/ Canonical(Field(message, "messages"), Field(message, "text")).text = <<>>

\* C33: a message whose canonical text, or whose trimmed sender id, is empty
\* is dropped as the first step of the pipeline: the drop is logged at verbose
\* level and nothing else happens, no allow-list read, pairing request, media
\* fetch, dispatch, outbound call or error report.
C33_EmptyMessageDroppedFirst ==
  \A r \in Reqs : Started(r) /\ EmptyAfterTrim(r) =>
    /\ events[r] = <<"ack", "start", "skip">>
    /\ pc[r] = "done"
    /\ outbox[r] = <<>>
    /\ pending = {}
    /\ errorLog[r] = 0
    /\ r \notin rejections

\* A message whose messages array holds a tool message only was skipped
C33_Witness ==
  \E r \in Reqs :
    /\ body[r].raw = Json(Obj(Str(SenderA), Undef, Arr(<<MsgTool>>), Str(MediaUrl)))
    /\ Has(r, "skip")
    /\ pc[r] = "done"

\* The indices, in order, of the media items of request r that were saved
RECURSIVE SavedUpTo(_, _)
SavedUpTo(r, n) ==
  IF n = 0 THEN <<>>
  ELSE SavedUpTo(r, n - 1) \o (IF loc[r].resolved[n] = "saved" THEN <<n>> ELSE <<>>)

\* The items a context field lists: none when it is undefined
Listed(v) == IF v = Undef THEN <<>> ELSE v.a

\* C34: a media item that fails is skipped alone and the message is still
\* dispatched; the context's MediaPaths and MediaTypes list the saved items,
\* and only those, in input order with the mediaUrl first, and MediaPath and
\* MediaType are their first elements, undefined when nothing was saved.
C34_MediaFailureSkipsItem ==
  \A r \in Reqs :
    /\ loc[r].resolved # <<>> /\ pc[r] # "media" => Has(r, "dispatch")
    /\ \A k \in DOMAIN loc[r].dispatched :
         LET ctx == loc[r].dispatched[k]
             ok == SavedUpTo(r, Len(MediaItems(r)))
         IN /\ Len(loc[r].resolved) = Len(MediaItems(r))
            /\ Len(Listed(ctx.MediaPaths)) = Len(ok)
            /\ Len(Listed(ctx.MediaTypes)) = Len(ok)
            /\ \A i \in DOMAIN ok :
                 /\ Listed(ctx.MediaPaths)[i] = Saved(MediaItems(r)[ok[i]], ok[i]).path
                 /\ Listed(ctx.MediaTypes)[i] =
                      Saved(MediaItems(r)[ok[i]], ok[i]).contentType
            /\ IF ok = <<>>
                 THEN ctx.MediaPath = Undef /\ ctx.MediaType = Undef
                 ELSE /\ ctx.MediaPath = Listed(ctx.MediaPaths)[1]
                      /\ ctx.MediaType = Listed(ctx.MediaTypes)[1]

\* A message with a mediaUrl and two parts was dispatched after its first
\* extracted item failed and the other two were saved
C34_Witness ==
  \E r \in Reqs :
    /\ loc[r].resolved = <<"saved", "failed", "saved">>
    /\ Len(loc[r].dispatched) = 1
    /\ loc[r].dispatched[1].MediaPaths = Arr(<<[t |-> "path", of |-> 1], [t |-> "path", of |-> 3]>>)
    /\ loc[r].dispatched[1].MediaType = [t |-> "fetched", of |-> 1]

\* C35: a POST to the webhook path is authenticated if and only if at least one
\* of X-EZAIL-Authorization and Authorization carries the configured bearer
\* token.
C35_EitherHeaderAuthenticates ==
  \A r \in Reqs :
    req[r] # NoReq /\ req[r].url = path /\ req[r].method = "POST" =>
      (res[r].statuses # <<401>> <=>
         \/ validateBearerToken(req[r].ezail, token)
         \/ validateBearerToken(req[r].authorization, token))

\* The counters in memory hold a usage event that the snapshot on disk lacks
Unwritten ==
  /\ Entry(tracker.data.allTime, <<"p">>, <<"m">>).requestCount > 0
  /\ disk.file # File("json", stringify(tracker.data))

\* C36: whenever the counters in memory hold a usage event that the last
\* written snapshot does not, the dirty flag is set or a save whose content
\* holds that event is in flight.
C36_NoUsageEventLost ==
  Unwritten =>
    \/ tracker.isDirty
    \/ \E k \in DOMAIN disk.writes :
         /\ disk.writes[k].state = "pending"
         /\ disk.writes[k].content = stringify(tracker.data)

CounterNames == {"total", "input", "output", "cacheRead", "cacheWrite", "requestCount"}

\* The period inner lies within the period outer: it started no earlier and
\* none of its counters exceeds the outer one's
Within(inner, outer) ==
  /\ outer.startedAt <= inner.startedAt
  /\ \A e \in Entries(inner), c \in CounterNames :
       Entry(inner, e[1], e[2])[c] <= Entry(outer, e[1], e[2])[c]

\* C37: with no reset(period) and no load, after usage events at
\* non-decreasing times every counter satisfies daily <= weekly <= monthly <=
\* allTime, and the startedAt times allTime <= monthly <= weekly <= daily.
C37_WindowsNested ==
  /\ Within(tracker.data.daily, tracker.data.weekly)
  /\ Within(tracker.data.weekly, tracker.data.monthly)
  /\ Within(tracker.data.monthly, tracker.data.allTime)

\* C38: when the delivery of a reply with a non-empty text has finished, at
\* least one call of sendHttpWebhookMessage was made for it whose message
\* carries the text, whole or one of its chunks, whatever mediaUrls and
\* mediaUrl hold.
C38_TextAlwaysAttempted ==
  \A r \in DOMAIN replies :
    Finished(r) /\ HasText(r) =>
      \E k \in DOMAIN sends :
        /\ sends[k].by.fn = "deliver" /\ sends[k].by.id = r
        /\ sends[k].message.text # <<>>

\* The message of request r passed validation by its text: a string that is
\* non-empty after trimming, from a sender that is one too
ValidByText(r) ==
  LET message == body[r].result.value
  IN /\ Started(r)
     /\ Field(message, "from").t = "str" /\ trim(Field(message, "from").s) # <<>>
     /\ Field(message, "text").t = "str" /\ trim(Field(message, "text").s) # <<>>

\* C39: a message that passed validation by its non-empty text is processed
\* with the trimmed text as its canonical text and is not dropped as empty,
\* whatever its messages field holds.
C39_TextSurvivesMessages ==
  \A r \in Reqs : ValidByText(r) =>
    /\ loc[r].text = trim(Field(body[r].result.value, "text").s)
    /\ ~Has(r, "skip")

\* C40: sendText and sendMedia return a delivery result only when the call of
\* sendHttpWebhookMessage they made returned ok: true.
C40_DeliveryResultOnlyOnSuccess ==
  plugin.fn \in {"sendText", "sendMedia"} /\ plugin.pc = "returned" =>
    sends[1].result.ok

====
